---- MODULE Spec2Model ----
(***************************************************************************)
(* Bicycle state-space model and its observer.                             *)
(*                                                                         *)
(* Two revisions of model::Bicycle live in the repository:                 *)
(*   - src/src/bicycle/bicycle.cc : continuous-time model with individual  *)
(*     parameter setters and the two "recalculate" flags  (variable        *)
(*     bicycle, specification Spec);                                       *)
(*   - src/src/bicycle.cc : model with a sample time, discrete matrices    *)
(*     Ad, Bd and the optional lookup table  (variable dbicycle,           *)
(*     specification SpecDiscrete).                                        *)
(* The telemetry example src/examples/udp.cc and its UDP server            *)
(* src/src/network_server.cc are the variables main and server             *)
(* (specifications SpecServer, SpecServerFair).                            *)
(*                                                                         *)
(* real_t values are exact rationals <<numerator, denominator>>; angles    *)
(* are drawn from a table of angles whose sine, cosine and tangent are     *)
(* rational, so every formula of the source is evaluated exactly.          *)
(***************************************************************************)
EXTENDS Integers, Sequences, FiniteSets, TLC

VARIABLES bicycle, dbicycle, twin, kalman, plant, call, ncalls, main, server

vars == <<bicycle, dbicycle, twin, kalman, plant, call, ncalls, main, server>>

(***************************************************************************)
(* real_t arithmetic                                                       *)
(***************************************************************************)
Abs(a) == IF a < 0 THEN -a ELSE a

RECURSIVE GCD(_, _)
GCD(a, b) == IF b = 0 THEN a ELSE GCD(b, a % b)

Sgn(a) == IF a > 0 THEN 1 ELSE IF a < 0 THEN -1 ELSE 0

\* the values of real_t that are not numbers have the denominator 0:
\* +infinity, -infinity and NaN
infinity == <<1, 0>>

NaN == <<0, 0>>

\* the rational n/d in lowest terms with a positive denominator; x/0 is an
\* infinity and 0/0 is NaN
Rat(num, den) ==
    IF den = 0 THEN <<Sgn(num), 0>>
    ELSE LET s == IF den < 0 THEN -1 ELSE 1
             k == GCD(Abs(num), Abs(den))
         IN  <<(s * num) \div k, (s * den) \div k>>

R(i) == <<i, 1>>

\* inf + x = inf, inf + inf = inf, inf - inf = NaN, NaN + x = NaN
RAdd(a, b) ==
    IF a[2] = 0 \/ b[2] = 0
    THEN (IF a[2] # 0 THEN b ELSE IF b[2] # 0 \/ a = b THEN a ELSE NaN)
    ELSE IF a[1] = 0 THEN b
    ELSE IF b[1] = 0 THEN a
    ELSE LET k == GCD(a[2], b[2])
         IN  Rat(a[1] * (b[2] \div k) + b[1] * (a[2] \div k), a[2] * (b[2] \div k))

RNeg(a) == <<-a[1], a[2]>>

RSub(a, b) == RAdd(a, RNeg(b))

\* the factors are in lowest terms, so the product is once the cross factors
\* are cancelled; inf * x = +-inf, inf * 0 = NaN, NaN * x = NaN
RMul(a, b) ==
    IF a[2] = 0 \/ b[2] = 0 THEN <<Sgn(a[1]) * Sgn(b[1]), 0>>
    ELSE IF a[1] = 0 \/ b[1] = 0 THEN <<0, 1>>
    ELSE LET k1 == GCD(Abs(a[1]), b[2])
             k2 == GCD(Abs(b[1]), a[2])
         IN  <<(a[1] \div k1) * (b[1] \div k2), (a[2] \div k2) * (b[2] \div k1)>>

\* x / inf = 0, x / 0 = +-inf, 0 / 0 = NaN
RDiv(a, b) == RMul(a, Rat(b[2], b[1]))

(***************************************************************************)
(* Fixed-size matrices (Eigen), indexed from 0 as in the source.           *)
(***************************************************************************)
\* Eigen evaluates a matrix expression when it is assigned: Eval(X) is X with
\* every coefficient computed (f @@ <<>> is f, as an explicit table)
Eval(X) == [i \in DOMAIN X |-> X[i] @@ <<>>] @@ <<>>

Rows(X) == Cardinality(DOMAIN X)
Cols(X) == Cardinality(DOMAIN X[0])

MatZero(r, c) == Eval([i \in 0..(r - 1) |-> [j \in 0..(c - 1) |-> R(0)]])

MatIdentity(r, c) ==
    Eval([i \in 0..(r - 1) |-> [j \in 0..(c - 1) |-> IF i = j THEN R(1) ELSE R(0)]])

MatAdd(X, Y) ==
    Eval([i \in DOMAIN X |-> [j \in DOMAIN X[i] |-> RAdd(X[i][j], Y[i][j])]])

MatScale(s, X) == Eval([i \in DOMAIN X |-> [j \in DOMAIN X[i] |-> RMul(s, X[i][j])]])

MatNeg(X) == Eval([i \in DOMAIN X |-> [j \in DOMAIN X[i] |-> RNeg(X[i][j])]])

MatTranspose(X) == Eval([j \in DOMAIN X[0] |-> [i \in DOMAIN X |-> X[i][j]]])

RECURSIVE DotUpTo(_, _, _, _, _)
DotUpTo(X, Y, i, j, k) ==
    IF k < 0 THEN R(0)
    ELSE RAdd(DotUpTo(X, Y, i, j, k - 1), RMul(X[i][k], Y[k][j]))

MatMul(X, Y) ==
    Eval([i \in DOMAIN X |-> [j \in DOMAIN Y[0] |-> DotUpTo(X, Y, i, j, Cols(X) - 1)]])

\* X.block<rows(Blk), cols(Blk)>(i0, j0) = Blk
SetBlock(X, i0, j0, Blk) ==
    Eval([i \in DOMAIN X |-> [j \in DOMAIN X[i] |->
        IF i - i0 \in DOMAIN Blk /\ j - j0 \in DOMAIN Blk[0]
        THEN Blk[i - i0][j - j0] ELSE X[i][j]]])

\* X.block<r, c>(i0, j0)
Block(X, i0, j0, r, c) ==
    Eval([i \in 0..(r - 1) |-> [j \in 0..(c - 1) |-> X[i0 + i][j0 + j]]])

Det2(X) == RSub(RMul(X[0][0], X[1][1]), RMul(X[0][1], X[1][0]))

\* the matrix whose rows are the tuples of t (the comma initializer, operator<<)
FromRows(t) ==
    Eval([i \in 0..(Len(t) - 1) |-> [j \in 0..(Len(t[1]) - 1) |-> t[i + 1][j + 1]]])

\* Eigen's inverse of a 2x2 matrix: the adjugate over the determinant
Inverse(X) ==
    LET d == Det2(X)
    IN  FromRows(<< <<RDiv(X[1][1], d), RDiv(RNeg(X[0][1]), d)>>,
                    <<RDiv(RNeg(X[1][0]), d), RDiv(X[0][0], d)>> >>)

(***************************************************************************)
(* Sizes: class Bicycle : public Linear<5, 2, 2, 2>                        *)
(***************************************************************************)
n == 5
m == 2
l == 2
o == 2
p == 4

\* constants::g, the gravitational acceleration
g == Rat(981, 100)

(***************************************************************************)
(* Angles with exact trigonometry: 0, atan(3/4) and atan(4/3).             *)
(***************************************************************************)
Angles == {"0", "atan(3/4)", "atan(4/3)"}

Cos(a) == CASE a = "0" -> R(1) [] a = "atan(3/4)" -> Rat(4, 5) [] a = "atan(4/3)" -> Rat(3, 5)

Sin(a) == CASE a = "0" -> R(0) [] a = "atan(3/4)" -> Rat(3, 5) [] a = "atan(4/3)" -> Rat(4, 5)

Tan(a) == RDiv(Sin(a), Cos(a))

(***************************************************************************)
(* Eigen::LLT<second_order_matrix_t>.  matrix is the matrix whose Cholesky  *)
(* factors the object holds; solve(X) is matrix^-1 * X.  A default          *)
(* constructed LLT has isInitialized = FALSE and factors that were never    *)
(* written: solve() then trips eigen_assert in a build with assertions and  *)
(* solves with whatever the storage holds in a build without.               *)
(***************************************************************************)
LltCompute(X) == [isInitialized |-> TRUE, matrix |-> X]

\* a matrix or vector that nothing has written yet (no operation reads it)
uninitialized == <<>>

LltSolve(llt, X) == MatMul(Inverse(llt.matrix), X)

(***************************************************************************)
(* model::Bicycle of src/src/bicycle/bicycle.cc.  Each method is an        *)
(* operator from the object before the call to the object after it.        *)
(***************************************************************************)

\* set d1, d2, d3 used in pitch constraint calculation
set_moore_parameters(b) ==
    LET d1 == RMul(Cos(b.m_lambda),
                   RSub(RAdd(b.m_c, b.m_w), RMul(b.m_rr, Tan(b.m_lambda))))
        d3 == RNeg(RMul(Cos(b.m_lambda),
                        RSub(b.m_c, RMul(b.m_rf, Tan(b.m_lambda)))))
        d2 == RDiv(RAdd(RSub(RAdd(b.m_rr, RMul(d1, Sin(b.m_lambda))), b.m_rf),
                        RMul(d3, Sin(b.m_lambda))),
                   Cos(b.m_lambda))
    IN  [b EXCEPT !.m_d1 = d1, !.m_d3 = d3, !.m_d2 = d2,
                  !.m_recalculate_moore_parameters = FALSE]

\* set_state_space that leaves out the steer rate component of the yaw rate
set_state_space_without_steer_rate(b) ==
    LET A1 == [b.m_A EXCEPT ![0][2] = RDiv(RMul(b.m_v, Cos(b.m_lambda)), b.m_w)]
        A2 == SetBlock(A1, 1, 3, MatIdentity(o, o))
        A3 == SetBlock(A2, 3, 1,
                 MatNeg(LltSolve(b.m_M_llt,
                     MatAdd(MatScale(g, b.m_K0),
                            MatScale(RMul(b.m_v, b.m_v), b.m_K2)))))
        A4 == SetBlock(A3, n - o, n - o,
                 MatNeg(LltSolve(b.m_M_llt, MatScale(b.m_v, b.m_C1))))
    IN  [b EXCEPT !.m_A = A4,
                  !.m_B = SetBlock(b.m_B, n - o, 0, Inverse(b.m_M)),
                  !.m_recalculate_state_space = FALSE]

set_state_space(b) ==
    LET A1 == [b.m_A EXCEPT
                 ![0][2] = RDiv(RMul(b.m_v, Cos(b.m_lambda)), b.m_w),
                 ![0][4] = RDiv(RMul(b.m_c, Cos(b.m_lambda)), b.m_w)]
        A2 == SetBlock(A1, 1, 3, MatIdentity(o, o))
        A3 == SetBlock(A2, 3, 1,
                 MatNeg(LltSolve(b.m_M_llt,
                     MatAdd(MatScale(g, b.m_K0),
                            MatScale(RMul(b.m_v, b.m_v), b.m_K2)))))
        A4 == SetBlock(A3, n - o, n - o,
                 MatNeg(LltSolve(b.m_M_llt, MatScale(b.m_v, b.m_C1))))
    IN  [b EXCEPT !.m_A = A4,
                  !.m_B = SetBlock(b.m_B, n - o, 0, Inverse(b.m_M)),
                  !.m_recalculate_state_space = FALSE]

\* this function _always_ recalculates state space
set_v(b, v) == set_state_space([b EXCEPT !.m_v = v])

set_M(b, M, recalculate_state_space) ==
    LET b1 == [b EXCEPT !.m_M = M, !.m_M_llt = LltCompute(M)]
    IN  IF recalculate_state_space THEN set_state_space(b1)
        ELSE [b1 EXCEPT !.m_recalculate_state_space = TRUE]

\* set_C1 recalculating whatever the flag says
set_C1_eager(b, C1, recalculate_state_space) ==
    set_state_space([b EXCEPT !.m_C1 = C1])

set_C1(b, C1, recalculate_state_space) ==
    LET b1 == [b EXCEPT !.m_C1 = C1]
    IN  IF recalculate_state_space THEN set_state_space(b1)
        ELSE [b1 EXCEPT !.m_recalculate_state_space = TRUE]

set_K0(b, K0, recalculate_state_space) ==
    LET b1 == [b EXCEPT !.m_K0 = K0]
    IN  IF recalculate_state_space THEN set_state_space(b1)
        ELSE [b1 EXCEPT !.m_recalculate_state_space = TRUE]

set_K2(b, K2, recalculate_state_space) ==
    LET b1 == [b EXCEPT !.m_K2 = K2]
    IN  IF recalculate_state_space THEN set_state_space(b1)
        ELSE [b1 EXCEPT !.m_recalculate_state_space = TRUE]

set_wheelbase(b, w, recalculate_parameters) ==
    LET b1 == [b EXCEPT !.m_w = w]
    IN  IF recalculate_parameters THEN set_state_space(set_moore_parameters(b1))
        ELSE [b1 EXCEPT !.m_recalculate_state_space = TRUE,
                        !.m_recalculate_moore_parameters = TRUE]

\* set_trail without the call of set_moore_parameters()
set_trail_skips_moore(b, c, recalculate_parameters) ==
    LET b1 == [b EXCEPT !.m_c = c]
    IN  IF recalculate_parameters THEN set_state_space(b1)
        ELSE [b1 EXCEPT !.m_recalculate_state_space = TRUE,
                        !.m_recalculate_moore_parameters = TRUE]

set_trail(b, c, recalculate_parameters) ==
    LET b1 == [b EXCEPT !.m_c = c]
    IN  IF recalculate_parameters THEN set_state_space(set_moore_parameters(b1))
        ELSE [b1 EXCEPT !.m_recalculate_state_space = TRUE,
                        !.m_recalculate_moore_parameters = TRUE]

\* set_steer_axis_tilt that recalculates the state space only
set_steer_axis_tilt_keeps_moore(b, lambda, recalculate_parameters) ==
    LET b1 == [b EXCEPT !.m_lambda = lambda]
    IN  IF recalculate_parameters THEN set_state_space(b1)
        ELSE [b1 EXCEPT !.m_recalculate_state_space = TRUE,
                        !.m_recalculate_moore_parameters = TRUE]

set_steer_axis_tilt(b, lambda, recalculate_parameters) ==
    LET b1 == [b EXCEPT !.m_lambda = lambda]
    IN  IF recalculate_parameters THEN set_state_space(set_moore_parameters(b1))
        ELSE [b1 EXCEPT !.m_recalculate_state_space = TRUE,
                        !.m_recalculate_moore_parameters = TRUE]

\* set_rear_wheel_radius written like the other geometry setters
set_rear_wheel_radius_as_geometry(b, rr, recalculate_moore_parameters) ==
    LET b1 == [b EXCEPT !.m_rr = rr]
    IN  IF recalculate_moore_parameters THEN set_state_space(set_moore_parameters(b1))
        ELSE [b1 EXCEPT !.m_recalculate_state_space = TRUE,
                        !.m_recalculate_moore_parameters = TRUE]

set_rear_wheel_radius(b, rr, recalculate_moore_parameters) ==
    LET b1 == [b EXCEPT !.m_rr = rr]
    IN  IF recalculate_moore_parameters THEN set_moore_parameters(b1)
        ELSE [b1 EXCEPT !.m_recalculate_moore_parameters = TRUE]

set_front_wheel_radius(b, rf, recalculate_moore_parameters) ==
    LET b1 == [b EXCEPT !.m_rf = rf]
    IN  IF recalculate_moore_parameters THEN set_moore_parameters(b1)
        ELSE [b1 EXCEPT !.m_recalculate_moore_parameters = TRUE]

\* an accessor that would recalculate before it returns
A_recalculated(b) == set_state_space(b).m_A

\* accessors: const member functions returning the stored member
A(b) == b.m_A

B(b) == b.m_B

\* BicycleWhipple::integrate_state: the input term of the system function,
\* M^-1 u, solved with the stored decomposition (B is not used)
integrate_state_input_term(b, u) == LltSolve(b.m_M_llt, u)

\* BicycleWhipple::integrate_state: the system function dxdt = A x + [0; M^-1 u]
integrate_state_system(b, x, u) ==
    MatAdd(MatMul(b.m_A, x),
           SetBlock(MatZero(n, 1), n - o, 0, integrate_state_input_term(b, u)))

need_recalculate_state_space(b) == b.m_recalculate_state_space

need_recalculate_moore_parameters(b) == b.m_recalculate_moore_parameters

\* the members the constraint function of solve_constraint_pitch captures
\* through this: the Moore parameters and the wheel radii
constraint_function_parameters(b) ==
    [d1 |-> b.m_d1, d2 |-> b.m_d2, d3 |-> b.m_d3, rr |-> b.m_rr, rf |-> b.m_rf]

(***************************************************************************)
(* boost::numeric::odeint::runge_kutta_dopri5, the member                   *)
(* m_auxiliary_stepper.  The stepper has the first-same-as-last property:   *)
(* do_step(system, x, t, dt) evaluates the derivative at x only on the      *)
(* first call; it keeps the derivative at the end of each step and takes it *)
(* as the first stage of the next step.  Only reset() makes it forget.      *)
(***************************************************************************)
\* a newly constructed stepper
runge_kutta_dopri5 == [first_call |-> TRUE, dxdt |-> uninitialized]

\* the weight of the first stage in the Dormand-Prince solution; the weights
\* of all stages add up to 1
dopri5_b1 == Rat(35, 384)

\* the system of integrate_auxiliary_state at yaw angle psi: the derivatives
\* of x, y, rear wheel angle and pitch angle (those of the state are zero)
auxiliary_system(b, psi) ==
    [i \in 0..(p - 1) |->
        CASE i = 0 -> RMul(b.m_v, Cos(psi))
          [] i = 1 -> RMul(b.m_v, Sin(psi))
          [] i = 2 -> RNeg(RDiv(b.m_v, b.m_rr))
          [] OTHER -> R(0)]

\* do_step(system, x, 0.0, dt) for a system whose derivative F is the same
\* at every stage (the yaw angle does not change during the step):
\* <<stepper, x>> after the step
do_step(stepper, F, x, dt) ==
    LET k1 == IF stepper.first_call THEN F ELSE stepper.dxdt
    IN  << [first_call |-> FALSE, dxdt |-> F],
           [i \in DOMAIN x |->
               RAdd(x[i], RMul(dt, RAdd(RMul(dopri5_b1, k1[i]), RMul(RSub(R(1), dopri5_b1), F[i]))))] >>

\* the value newton_raphson_iterate returns for the constraint function of
\* this model at (roll, steer), started from guess
solve_constraint_pitch(b, roll, steer, guess) ==
    [parameters |-> constraint_function_parameters(b),
     roll |-> roll, steer |-> steer, guess |-> guess]

\* <<object, returned auxiliary state>>: the stepper member is mutable
integrate_auxiliary_state(b, x, x_aux, t) ==
    LET step == do_step(b.m_auxiliary_stepper, auxiliary_system(b, x[0]), x_aux, t)
    IN  << [b EXCEPT !.m_auxiliary_stepper = step[1]],
           [step[2] EXCEPT ![3] = solve_constraint_pitch(b, x[1], x[2], x_aux[3])] >>

(***************************************************************************)
(* model::Bicycle of src/src/bicycle.cc: forward speed and sample time,    *)
(* discrete matrices and the optional lookup table.                        *)
(***************************************************************************)

\* the key a (v, dt) pair is stored under: both quantized to thousandths.
\* The conversion of a value that is not a number has no defined result; it
\* is taken to be an integer that is the key of no table.
make_state_space_map_key(v, dt) ==
    LET q(a) == IF a[2] = 0 THEN -2147483647 ELSE (1000 * a[1]) \div a[2]
    IN  <<q(v), q(dt)>>

\* Eigen's isZero / isIdentity with discretization_precision =
\* dummy_precision (1e-12): a rational with a 32-bit denominator is within
\* 1e-12 of an integer only when it is that integer
IsZero(X) == \A i \in DOMAIN X : \A j \in DOMAIN X[i] : X[i][j] = R(0)

IsIdentity(X) ==
    \A i \in DOMAIN X : \A j \in DOMAIN X[i] :
        X[i][j] = (IF i = j THEN R(1) ELSE R(0))

\* an exponential series that lacks its first term, the identity
MatExp_without_identity(X) == MatAdd(X, MatScale(Rat(1, 2), MatMul(X, X)))

\* MatrixBase::exp() of unsupported/Eigen/MatrixFunctions, as the Taylor
\* series of the exponential up to the second-order term
MatExp(X) ==
    MatAdd(MatAdd(MatIdentity(Rows(X), Cols(X)), X),
           MatScale(Rat(1, 2), MatMul(X, X)))

\* Calculate constant parts of A, B from M, C1, K0, K2 matrices.
initialize_state_space_matrices(b) ==
    LET A0 == MatZero(n, n)
        A1 == [A0 EXCEPT ![0][4] = RDiv(RMul(b.m_c, Cos(b.m_lambda)), b.m_w)]
        A2 == SetBlock(A1, 1, 3, MatIdentity(o, o))
    IN  [b EXCEPT !.m_A = A2,
                  !.m_B = SetBlock(MatZero(n, m), 0, 0, MatZero(o, o)),
                  !.m_Ad = MatZero(n, n),
                  !.m_Bd = MatZero(n, m),
                  !.m_M_llt = LltCompute(b.m_M)]

\* const state_space_map_t*: the null pointer, or a pointer to the caller's map
nullptr == <<>>

AddressOf(map) == <<map>>

Deref(ptr) == ptr[1]

\* a lookup that copies Ad and forgets Bd
lookup_forgets_Bd(b, k) ==
    IF b.m_discrete_state_space_map = nullptr THEN <<FALSE, b>>
    ELSE IF k \notin DOMAIN Deref(b.m_discrete_state_space_map) THEN <<FALSE, b>>
    ELSE <<TRUE, [b EXCEPT !.m_Ad = Deref(b.m_discrete_state_space_map)[k][1]]>>

\* <<found, object>>: Ad, Bd are taken from the table when it has the key
discrete_state_space_lookup(b, k) ==
    IF b.m_discrete_state_space_map = nullptr THEN <<FALSE, b>>
    ELSE IF k \notin DOMAIN Deref(b.m_discrete_state_space_map) THEN <<FALSE, b>>
    ELSE <<TRUE, [b EXCEPT !.m_Ad = Deref(b.m_discrete_state_space_map)[k][1],
                          !.m_Bd = Deref(b.m_discrete_state_space_map)[k][2]]>>

\* a discretization that leaves Bd as the previous call left it
discretize_keeps_Bd(b, v, dt) ==
    LET found == discrete_state_space_lookup(b, make_state_space_map_key(v, dt))
        AT == MatScale(dt,
                SetBlock(SetBlock(MatZero(n + m, n + m), 0, 0, b.m_A), 0, n, b.m_B))
        T  == MatExp(AT)
    IN  IF found[1] THEN found[2]
        ELSE [b EXCEPT !.m_Ad = Block(T, 0, 0, n, n)]

\* a discretization that assigns Ad, Bd only when the validation passes
discretize_rejects_invalid(b, v, dt) ==
    LET found == discrete_state_space_lookup(b, make_state_space_map_key(v, dt))
        AT == MatScale(dt,
                SetBlock(SetBlock(MatZero(n + m, n + m), 0, 0, b.m_A), 0, n, b.m_B))
        T  == MatExp(AT)
    IN  IF found[1] THEN found[2]
        ELSE IF ~IsZero(Block(T, n, 0, m, n)) \/ ~IsIdentity(Block(T, n, n, m, m))
        THEN [b EXCEPT !.warning = TRUE]
        ELSE [b EXCEPT !.m_Ad = Block(T, 0, 0, n, n), !.m_Bd = Block(T, 0, n, n, m)]

\* the else branch of set_v_dt (dt # 0): table lookup, else discretization
discretize(b, v, dt) ==
    LET found == discrete_state_space_lookup(b, make_state_space_map_key(v, dt))
        AT == MatScale(dt,
                SetBlock(SetBlock(MatZero(n + m, n + m), 0, 0, b.m_A), 0, n, b.m_B))
        T  == MatExp(AT)
    IN  IF found[1] THEN found[2]
        ELSE [b EXCEPT
                !.warning = \/ ~IsZero(Block(T, n, 0, m, n))
                            \/ ~IsIdentity(Block(T, n, n, m, m)),
                !.m_Ad = Block(T, 0, 0, n, n),
                !.m_Bd = Block(T, 0, n, n, m)]

\* set_v_dt up to the discretization: speed, sample time and A, B
continuous_state_space(b, v, dt) ==
    LET b0 == IF b.m_recalculate_state_space
              THEN initialize_state_space_matrices(b) ELSE b
        K  == MatAdd(MatScale(g, b0.m_K0), MatScale(RMul(v, v), b0.m_K2))
        A1 == [b0.m_A EXCEPT ![0][2] = RDiv(RMul(v, Cos(b0.m_lambda)), b0.m_w)]
        A2 == SetBlock(A1, 3, 1, MatNeg(LltSolve(b0.m_M_llt, K)))
        A3 == SetBlock(A2, n - o, n - o,
                 MatNeg(LltSolve(b0.m_M_llt, MatScale(v, b0.m_C1))))
    IN  [b0 EXCEPT !.m_v = v, !.m_dt = dt, !.m_K = K, !.m_A = A3,
                   !.m_B = SetBlock(b0.m_B, n - o, 0, Inverse(b0.m_M)),
                   !.warning = FALSE]

\* set_v_dt whose dt = 0 branch does not reset Bd
set_v_dt_keeps_Bd(b, v, dt) ==
    LET b1 == continuous_state_space(b, v, dt)
        b2 == IF dt = R(0)
              THEN [b1 EXCEPT !.m_Ad = MatIdentity(n, n)]
              ELSE discretize(b1, v, dt)
    IN  [b2 EXCEPT !.m_recalculate_state_space = FALSE]

\* set_v_dt that looks the table up first and on a hit leaves A, B alone
set_v_dt_lookup_first(b, v, dt) ==
    LET b0 == IF b.m_recalculate_state_space
              THEN initialize_state_space_matrices(b) ELSE b
        found == discrete_state_space_lookup(b0, make_state_space_map_key(v, dt))
        b1 == continuous_state_space(b, v, dt)
        b2 == IF dt = R(0)
              THEN [b1 EXCEPT !.m_Ad = MatIdentity(n, n), !.m_Bd = MatZero(n, m)]
              ELSE IF found[1]
              THEN [found[2] EXCEPT !.m_v = v, !.m_dt = dt, !.warning = FALSE]
              ELSE discretize(b1, v, dt)
    IN  [b2 EXCEPT !.m_recalculate_state_space = FALSE]

set_v_dt(b, v, dt) ==
    LET b1 == continuous_state_space(b, v, dt)
        b2 == IF dt = R(0)  \* discrete time state does not change
              THEN [b1 EXCEPT !.m_Ad = MatIdentity(n, n), !.m_Bd = MatZero(n, m)]
              ELSE discretize(b1, v, dt)
    IN  [b2 EXCEPT !.m_recalculate_state_space = FALSE]

\* Bicycle::set_state_space() of src/src/bicycle.cc
discrete_set_state_space(b) == set_v_dt(b, b.m_v, b.m_dt)

\* update_state that drops the input term
update_state_drops_input(b, x, u) == MatMul(b.m_Ad, x)

update_state(b, x, u) == MatAdd(MatMul(b.m_Ad, x), MatMul(b.m_Bd, u))

\* update_state(x, u, z): the measurement is not used
update_state_z(b, x, u, z) == update_state(b, x, u)

\* update_state(x) advanced with the continuous-time matrix
update_state_noinput_continuous(b, x) == MatMul(b.m_A, x)

\* update_state(x): the variant without input
update_state_noinput(b, x) == MatMul(b.m_Ad, x)

calculate_output(b, x, u) == MatAdd(MatMul(b.m_C, x), MatMul(b.m_D, u))

calculate_output_noinput(b, x) == MatMul(b.m_C, x)

\* parameters::defaultvalue::bicycle::C and ::D: the outputs are the yaw
\* angle and the steer angle, with no feedthrough
default_C ==
    FromRows(<< <<R(1), R(0), R(0), R(0), R(0)>>,
                <<R(0), R(0), R(1), R(0), R(0)>> >>)

default_D == MatZero(l, m)

\* The constructor up to and including set_moore_parameters(): the member
\* initializer list never computes m_M_llt, whose storage holds llt0.
BicycleMembers(M, C1, K0, K2, wheelbase, trail, steer_axis_tilt, rear_wheel_radius, front_wheel_radius, v, llt0) ==
    set_moore_parameters(
        [m_v |-> v, m_M |-> M, m_C1 |-> C1, m_K0 |-> K0, m_K2 |-> K2,
         m_w |-> wheelbase, m_c |-> trail, m_lambda |-> steer_axis_tilt,
         m_rr |-> rear_wheel_radius, m_rf |-> front_wheel_radius,
         m_d1 |-> R(0), m_d2 |-> R(0), m_d3 |-> R(0),
         m_recalculate_state_space |-> TRUE,
         m_recalculate_moore_parameters |-> TRUE,
         m_M_llt |-> [isInitialized |-> FALSE, matrix |-> llt0],
         m_A |-> MatZero(n, n), m_B |-> MatZero(n, m),
         m_C |-> default_C, m_D |-> default_D,
         m_auxiliary_stepper |-> runge_kutta_dopri5])

\* Bicycle::Bicycle(M, C1, K0, K2, wheelbase, ..., v) when it returns
Bicycle(M, C1, K0, K2, wheelbase, trail, steer_axis_tilt, rear_wheel_radius, front_wheel_radius, v, llt0) ==
    set_v(BicycleMembers(M, C1, K0, K2, wheelbase, trail, steer_axis_tilt,
                         rear_wheel_radius, front_wheel_radius, v, llt0), v)

(***************************************************************************)
(* Inputs the operations are driven with.                                  *)
(***************************************************************************)
\* bound on the number of calls made on an object after its construction
MaxCalls == 2

\* symmetric positive definite mass matrices
Masses ==
    { FromRows(<< <<R(2), R(1)>>, <<R(1), R(1)>> >>),
      FromRows(<< <<R(4), R(0)>>, <<R(0), R(2)>> >>) }

SecondOrderMatrices ==
    { FromRows(<< <<R(0), R(3)>>, <<R(-1), R(2)>> >>),
      FromRows(<< <<R(-8), R(-3)>>, <<R(-3), R(-1)>> >>) }

Speeds == {R(0), R(1), R(3)}

Wheelbases == {R(1), Rat(3, 2)}

Trails == {Rat(1, 10), Rat(1, 5)}

Radii == {Rat(3, 10), Rat(7, 20)}

\* what the never-written storage of m_M_llt may spell
LltGarbage ==
    { FromRows(<< <<R(2), R(1)>>, <<R(1), R(1)>> >>),
      FromRows(<< <<R(1), R(2)>>, <<R(2), R(5)>> >>) }

Builds == {"NDEBUG", "assertions"}

\* the parameter sets a model is constructed from
ParameterSets ==
    { [M  |-> FromRows(<< <<R(2), R(1)>>, <<R(1), R(1)>> >>),
       C1 |-> FromRows(<< <<R(0), R(3)>>, <<R(-1), R(2)>> >>),
       K0 |-> FromRows(<< <<R(-8), R(-3)>>, <<R(-3), R(-1)>> >>),
       K2 |-> FromRows(<< <<R(0), R(3)>>, <<R(-1), R(2)>> >>),
       w |-> R(1), c |-> Rat(1, 10), lambda |-> "atan(3/4)",
       rr |-> Rat(3, 10), rf |-> Rat(7, 20)] }

(***************************************************************************)
(* Specification Spec: one Bicycle of src/src/bicycle/bicycle.cc and the   *)
(* calls made on it.  call is the last call: its name, its recalculate     *)
(* flag, its other argument, whether it returned, and what it returned.    *)
(***************************************************************************)
Call(op, flag, arg, ret) ==
    [op |-> op, flag |-> flag, arg |-> arg, returned |-> TRUE, ret |-> ret]

Init ==
    /\ \E ps \in ParameterSets, v \in Speeds, llt0 \in LltGarbage, build \in Builds :
          IF build = "NDEBUG"
          THEN /\ bicycle = Bicycle(ps.M, ps.C1, ps.K0, ps.K2, ps.w, ps.c, ps.lambda,
                                    ps.rr, ps.rf, v, llt0)
               /\ call = Call("Bicycle", FALSE, "void", "void")
          ELSE \* eigen_assert(m_isInitialized) in LLT::solve ends the program
               /\ bicycle = BicycleMembers(ps.M, ps.C1, ps.K0, ps.K2, ps.w, ps.c,
                                           ps.lambda, ps.rr, ps.rf, v, llt0)
               /\ call = [Call("Bicycle", FALSE, "void", "void") EXCEPT !.returned = FALSE]
    /\ dbicycle = "none"
    /\ twin = "none"
    /\ kalman = "none"
    /\ plant = "none"
    /\ ncalls = 0
    /\ main = "none"
    /\ server = "none"

\* a call can be made: the program runs and the call budget is not spent
CanCall == call.returned /\ ncalls < MaxCalls

Do(op, flag, arg, ret, b) ==
    /\ CanCall
    /\ bicycle' = b
    /\ call' = Call(op, flag, arg, ret)
    /\ ncalls' = ncalls + 1
    /\ UNCHANGED <<dbicycle, twin, kalman, plant, main, server>>

Call_set_v == \E v \in Speeds : Do("set_v", FALSE, v, "void", set_v(bicycle, v))

Call_set_M ==
    \E M \in Masses, f \in BOOLEAN : Do("set_M", f, M, "void", set_M(bicycle, M, f))

Call_set_C1 ==
    \E C1 \in SecondOrderMatrices, f \in BOOLEAN :
        Do("set_C1", f, C1, "void", set_C1(bicycle, C1, f))

Call_set_K0 ==
    \E K0 \in SecondOrderMatrices, f \in BOOLEAN :
        Do("set_K0", f, K0, "void", set_K0(bicycle, K0, f))

Call_set_K2 ==
    \E K2 \in SecondOrderMatrices, f \in BOOLEAN :
        Do("set_K2", f, K2, "void", set_K2(bicycle, K2, f))

Call_set_wheelbase ==
    \E w \in Wheelbases, f \in BOOLEAN :
        Do("set_wheelbase", f, w, "void", set_wheelbase(bicycle, w, f))

Call_set_trail ==
    \E c \in Trails, f \in BOOLEAN :
        Do("set_trail", f, c, "void", set_trail(bicycle, c, f))

Call_set_steer_axis_tilt ==
    \E lambda \in Angles, f \in BOOLEAN :
        Do("set_steer_axis_tilt", f, lambda, "void", set_steer_axis_tilt(bicycle, lambda, f))

Call_set_rear_wheel_radius ==
    \E rr \in Radii, f \in BOOLEAN :
        Do("set_rear_wheel_radius", f, rr, "void", set_rear_wheel_radius(bicycle, rr, f))

Call_set_front_wheel_radius ==
    \E rf \in Radii, f \in BOOLEAN :
        Do("set_front_wheel_radius", f, rf, "void", set_front_wheel_radius(bicycle, rf, f))

Call_set_state_space ==
    Do("set_state_space", FALSE, "void", "void", set_state_space(bicycle))

Call_set_moore_parameters ==
    Do("set_moore_parameters", FALSE, "void", "void", set_moore_parameters(bicycle))

Call_A == Do("A", FALSE, "void", A(bicycle), bicycle)

Call_B == Do("B", FALSE, "void", B(bicycle), bicycle)

\* solve_constraint_pitch is const; ret records the members its constraint
\* function reads
Call_solve_constraint_pitch ==
    Do("solve_constraint_pitch", FALSE, "void",
       constraint_function_parameters(bicycle), bicycle)

Next ==
    \/ Call_set_v
    \/ Call_set_M
    \/ Call_set_C1
    \/ Call_set_K0
    \/ Call_set_K2
    \/ Call_set_wheelbase
    \/ Call_set_trail
    \/ Call_set_steer_axis_tilt
    \/ Call_set_rear_wheel_radius
    \/ Call_set_front_wheel_radius
    \/ Call_set_state_space
    \/ Call_set_moore_parameters
    \/ Call_A
    \/ Call_B
    \/ Call_solve_constraint_pitch

Spec == Init /\ [][Next]_vars

(***************************************************************************)
(* Specification SpecDiscrete: one Bicycle of src/src/bicycle.cc built     *)
(* with a lookup table (or none) and the calls made on it.  twin is an     *)
(* otherwise identical Bicycle built without a table that receives the     *)
(* same calls (bicycle0 and bicycle1 of tests/test_state_space.cc).        *)
(***************************************************************************)

\* Bicycle::Bicycle(M, C1, K0, K2, wheelbase, ..., v, dt, map) when it returns
DiscreteBicycle(M, C1, K0, K2, wheelbase, trail, steer_axis_tilt, rear_wheel_radius, front_wheel_radius, v, dt, discrete_state_space_map) ==
    set_v_dt(set_moore_parameters(
        [m_v |-> "uninitialized", m_dt |-> "uninitialized",
         m_M |-> M, m_C1 |-> C1, m_K0 |-> K0, m_K2 |-> K2,
         m_K |-> "uninitialized",
         m_w |-> wheelbase, m_c |-> trail, m_lambda |-> steer_axis_tilt,
         m_rr |-> rear_wheel_radius, m_rf |-> front_wheel_radius,
         m_d1 |-> "uninitialized", m_d2 |-> "uninitialized",
         m_d3 |-> "uninitialized",
         m_recalculate_state_space |-> TRUE,
         m_recalculate_moore_parameters |-> TRUE,
         m_M_llt |-> "uninitialized",
         m_A |-> "uninitialized", m_B |-> "uninitialized",
         m_C |-> default_C, m_D |-> default_D,
         m_Ad |-> "uninitialized", m_Bd |-> "uninitialized",
         m_discrete_state_space_map |-> discrete_state_space_map,
         warning |-> FALSE]), v, dt)

SampleTimes == {R(0), Rat(1, 200), Rat(1, 100)}

\* the sample time and the two speeds the lookup table has entries for
dt_table == Rat(1, 200)
vw == R(1)
vc == R(3)

\* These matrices are (obviously) not correct and are used only to determine
\* if discrete state space matrices are correctly looked up.
state_space_map ==
    (make_state_space_map_key(vw, dt_table) :>
        <<MatScale(R(2), MatIdentity(n, n)), MatScale(R(3), MatIdentity(n, m))>>) @@
    (make_state_space_map_key(vc, dt_table) :>
        <<MatScale(R(4), MatIdentity(n, n)), MatScale(R(5), MatIdentity(n, m))>>) @@
    (make_state_space_map_key(vc, R(0)) :>
        <<MatScale(R(6), MatIdentity(n, n)), MatScale(R(7), MatIdentity(n, m))>>)

Tables == {nullptr, AddressOf(state_space_map)}

\* state and input vectors the discrete model is advanced with
Column(t) == Eval([i \in 0..(Len(t) - 1) |-> [j \in {0} |-> t[i + 1]]])

States ==
    { Column(<<R(0), R(0), R(0), R(0), R(0)>>),
      Column(<<R(1), R(-2), Rat(1, 2), R(3), R(-1)>>) }

Inputs == { Column(<<R(0), R(0)>>), Column(<<R(1), R(-3)>>) }

Measurements == { Column(<<R(0), R(0)>>), Column(<<R(2), R(1)>>) }

\* the speeds set_v_dt is called with: real_t has infinite values
DiscreteSpeeds == Speeds \cup {infinity}

InitDiscrete ==
    /\ \E ps \in ParameterSets, v \in DiscreteSpeeds, dt \in SampleTimes, map \in Tables :
          /\ dbicycle = DiscreteBicycle(ps.M, ps.C1, ps.K0, ps.K2, ps.w, ps.c,
                                        ps.lambda, ps.rr, ps.rf, v, dt, map)
          /\ twin = DiscreteBicycle(ps.M, ps.C1, ps.K0, ps.K2, ps.w, ps.c,
                                    ps.lambda, ps.rr, ps.rf, v, dt, nullptr)
          /\ call = Call("Bicycle", FALSE, [v |-> v, dt |-> dt], "void")
    /\ bicycle = "none"
    /\ kalman = "none"
    /\ plant = "none"
    /\ ncalls = 0
    /\ main = "none"
    /\ server = "none"

DoDiscrete(op, arg, ret, b, t) ==
    /\ CanCall
    /\ dbicycle' = b
    /\ twin' = t
    /\ call' = Call(op, FALSE, arg, ret)
    /\ ncalls' = ncalls + 1
    /\ UNCHANGED <<bicycle, kalman, plant, main, server>>

Call_set_v_dt ==
    \E v \in DiscreteSpeeds, dt \in SampleTimes :
        DoDiscrete("set_v_dt", [v |-> v, dt |-> dt], "void",
                   set_v_dt(dbicycle, v, dt), set_v_dt(twin, v, dt))

Call_discrete_set_state_space ==
    DoDiscrete("set_state_space", "void", "void",
               discrete_set_state_space(dbicycle), discrete_set_state_space(twin))

Call_update_state ==
    \E x \in States, u \in Inputs :
        DoDiscrete("update_state", [x |-> x, u |-> u], update_state(dbicycle, x, u),
                   dbicycle, twin)

Call_update_state_z ==
    \E x \in States, u \in Inputs, z \in Measurements :
        DoDiscrete("update_state_z", [x |-> x, u |-> u, z |-> z],
                   update_state_z(dbicycle, x, u, z), dbicycle, twin)

Call_update_state_noinput ==
    \E x \in States :
        DoDiscrete("update_state_noinput", [x |-> x],
                   update_state_noinput(dbicycle, x), dbicycle, twin)

NextDiscrete ==
    \/ Call_set_v_dt
    \/ Call_discrete_set_state_space
    \/ Call_update_state
    \/ Call_update_state_z
    \/ Call_update_state_noinput

SpecDiscrete == InitDiscrete /\ [][NextDiscrete]_vars

(***************************************************************************)
(* observer::Kalman<model::Bicycle> of src/inc/kalman.h.  The filter holds *)
(* a reference to its system (sys below is the referenced Bicycle at the   *)
(* time of the call); the member function bodies are in kalman.hh.         *)
(***************************************************************************)
Kalman(Q, R0, x0, P0) ==
    [m_x |-> x0, m_K |-> uninitialized, m_P |-> P0, m_Q |-> Q, m_R |-> R0]

time_update_state_noinput(k, sys) ==
    [k EXCEPT !.m_x = update_state_noinput(sys, k.m_x)]

\* a state prediction that leaves the input out
time_update_state_drops_input(k, sys, u) == time_update_state_noinput(k, sys)

time_update_state(k, sys, u) == [k EXCEPT !.m_x = update_state(sys, k.m_x, u)]

time_update_error_covariance(k, sys, Q) ==
    [k EXCEPT !.m_P = MatAdd(MatMul(MatMul(sys.m_Ad, k.m_P), MatTranspose(sys.m_Ad)), Q)]

\* time_update()
time_update(k, sys) ==
    time_update_error_covariance(time_update_state_noinput(k, sys), sys, k.m_Q)

\* time_update(Q) that keeps its argument as the stored Q
time_update_Q_stores_override(k, sys, Q) ==
    [time_update_error_covariance(time_update_state_noinput(k, sys), sys, Q)
        EXCEPT !.m_Q = Q]

\* time_update(Q)
time_update_Q(k, sys, Q) ==
    time_update_error_covariance(time_update_state_noinput(k, sys), sys, Q)

\* time_update(u)
time_update_u(k, sys, u) ==
    time_update_error_covariance(time_update_state(k, sys, u), sys, k.m_Q)

\* time_update(u, Q)
time_update_u_Q(k, sys, u, Q) ==
    time_update_error_covariance(time_update_state(k, sys, u), sys, Q)

\* S = C P C^T + R; K = P C^T S^-1
measurement_update_kalman_gain(k, sys, R0) ==
    LET PCt == MatMul(k.m_P, MatTranspose(sys.m_C))
        S   == MatAdd(MatMul(sys.m_C, PCt), R0)
    IN  [k EXCEPT !.m_K = MatMul(PCt, Inverse(S))]

\* x = x + K (z - output(x))
measurement_update_state(k, sys, z) ==
    [k EXCEPT !.m_x = MatAdd(k.m_x, MatMul(k.m_K,
                        MatAdd(z, MatNeg(calculate_output_noinput(sys, k.m_x)))))]

\* P = (I - K C) P
measurement_update_error_covariance(k, sys) ==
    [k EXCEPT !.m_P = MatMul(MatAdd(MatIdentity(n, n),
                                    MatNeg(MatMul(k.m_K, sys.m_C))), k.m_P)]

\* measurement_update(z)
measurement_update(k, sys, z) ==
    measurement_update_error_covariance(
        measurement_update_state(
            measurement_update_kalman_gain(k, sys, k.m_R), sys, z), sys)

\* measurement_update(z, R) that takes the stored R instead of its argument
measurement_update_R_ignores_override(k, sys, z, R0) ==
    measurement_update(k, sys, z)

\* measurement_update(z, R)
measurement_update_R(k, sys, z, R0) ==
    measurement_update_error_covariance(
        measurement_update_state(
            measurement_update_kalman_gain(k, sys, R0), sys, z), sys)

\* accessors of the filter
Kalman_x(k) == k.m_x

Kalman_K(k) == k.m_K

Kalman_P(k) == k.m_P

Kalman_Q(k) == k.m_Q

Kalman_R(k) == k.m_R

(***************************************************************************)
(* Specification SpecKalman: a Kalman filter on a Bicycle of               *)
(* src/src/bicycle.cc whose discrete matrices come from the caller's table *)
(* (or are the identity, for dt = 0), as in examples/kalman.cc.            *)
(***************************************************************************)

\* a caller-supplied table of precomputed discrete matrices
kalman_state_space_map ==
    (make_state_space_map_key(vw, dt_table) :>
        << FromRows(<< <<R(1), R(0), R(1), R(0), R(0)>>,
                       <<R(0), R(1), R(0), R(1), R(0)>>,
                       <<R(0), R(0), R(1), R(0), R(1)>>,
                       <<R(0), R(1), R(-1), R(1), R(0)>>,
                       <<R(0), R(2), R(0), R(1), R(1)>> >>),
           FromRows(<< <<R(0), R(0)>>, <<R(0), R(0)>>, <<R(0), R(1)>>,
                       <<R(1), R(-1)>>, <<R(-1), R(2)>> >>) >>) @@
    (make_state_space_map_key(vc, dt_table) :>
        <<MatScale(R(2), MatIdentity(n, n)), MatScale(R(3), MatIdentity(n, m))>>)

\* the (v, dt) pairs the filtered system is run at
OperatingPoints == {<<vw, dt_table>>, <<vc, dt_table>>, <<vc, R(0)>>}

\* error and process-noise covariances
Covariances ==
    { MatZero(n, n),
      FromRows(<< <<R(2), R(1), R(0), R(0), R(0)>>,
                  <<R(1), R(2), R(0), R(0), R(0)>>,
                  <<R(0), R(0), R(1), R(0), R(0)>>,
                  <<R(0), R(0), R(0), R(1), R(0)>>,
                  <<R(0), R(0), R(0), R(0), R(3)>> >>) }

MeasurementCovariances ==
    { FromRows(<< <<R(1), R(0)>>, <<R(0), R(2)>> >>),
      FromRows(<< <<R(2), R(1)>>, <<R(1), R(2)>> >>) }

InitKalman ==
    /\ \E ps \in ParameterSets, vdt \in OperatingPoints :
          dbicycle = DiscreteBicycle(ps.M, ps.C1, ps.K0, ps.K2, ps.w, ps.c, ps.lambda,
                                     ps.rr, ps.rf, vdt[1], vdt[2],
                                     AddressOf(kalman_state_space_map))
    /\ \E Q \in Covariances, R0 \in MeasurementCovariances, x0 \in States,
          P0 \in Covariances :
          kalman = Kalman(Q, R0, x0, P0)
    /\ call = Call("Kalman", FALSE, "void", "void")
    /\ bicycle = "none"
    /\ twin = "none"
    /\ plant = "none"
    /\ ncalls = 0
    /\ main = "none"
    /\ server = "none"

DoKalman(op, args, k) ==
    /\ CanCall
    /\ kalman' = k
    /\ call' = Call(op, FALSE, args, "void")
    /\ ncalls' = ncalls + 1
    /\ UNCHANGED <<bicycle, dbicycle, twin, plant, main, server>>

Call_time_update == DoKalman("time_update()", "void", time_update(kalman, dbicycle))

Call_time_update_Q ==
    \E Q \in Covariances :
        DoKalman("time_update(Q)", [Q |-> Q], time_update_Q(kalman, dbicycle, Q))

Call_time_update_u ==
    \E u \in Inputs :
        DoKalman("time_update(u)", [u |-> u], time_update_u(kalman, dbicycle, u))

Call_time_update_u_Q ==
    \E u \in Inputs, Q \in Covariances :
        DoKalman("time_update(u, Q)", [u |-> u, Q |-> Q],
                 time_update_u_Q(kalman, dbicycle, u, Q))

Call_measurement_update ==
    \E z \in Measurements :
        DoKalman("measurement_update(z)", [z |-> z],
                 measurement_update(kalman, dbicycle, z))

Call_measurement_update_R ==
    \E z \in Measurements, R0 \in MeasurementCovariances :
        DoKalman("measurement_update(z, R)", [z |-> z, R |-> R0],
                 measurement_update_R(kalman, dbicycle, z, R0))

\* the wrapped system is moved to another operating point
Call_system_set_v_dt ==
    \E vdt \in OperatingPoints :
        /\ CanCall
        /\ dbicycle' = set_v_dt(dbicycle, vdt[1], vdt[2])
        /\ call' = Call("set_v_dt", FALSE, [v |-> vdt[1], dt |-> vdt[2]], "void")
        /\ ncalls' = ncalls + 1
        /\ UNCHANGED <<bicycle, twin, kalman, plant, main, server>>

NextKalman ==
    \/ Call_time_update
    \/ Call_time_update_Q
    \/ Call_time_update_u
    \/ Call_time_update_u_Q
    \/ Call_measurement_update
    \/ Call_measurement_update_R
    \/ Call_system_set_v_dt

SpecKalman == InitKalman /\ [][NextKalman]_vars

(***************************************************************************)
(* Specification SpecTracking: the sampling loop of examples/kalman.cc      *)
(* without noise.  plant is the true state; every sample advances it with   *)
(* the model, measures its output and runs time_update and                  *)
(* measurement_update on the filter.                                        *)
(***************************************************************************)
MaxSamples == 2

InitTracking ==
    /\ \E ps \in ParameterSets, vdt \in OperatingPoints :
          dbicycle = DiscreteBicycle(ps.M, ps.C1, ps.K0, ps.K2, ps.w, ps.c, ps.lambda,
                                     ps.rr, ps.rf, vdt[1], vdt[2],
                                     AddressOf(kalman_state_space_map))
    /\ \E R0 \in MeasurementCovariances, x0 \in States, P0 \in Covariances :
          /\ plant = x0
          /\ kalman = Kalman(MatZero(n, n), R0, x0, P0)
    /\ call = Call("Kalman", FALSE, "void", "void")
    /\ bicycle = "none"
    /\ twin = "none"
    /\ ncalls = 0
    /\ main = "none"
    /\ server = "none"

\* one pass of the loop with the plant driven by u: x = x_next(x, u);
\* z = y(x); time_update(u); measurement_update(z)
Sample_u ==
    \E u \in Inputs :
        /\ ncalls < MaxSamples
        /\ \E x \in {update_state(dbicycle, plant, u)} :
              /\ plant' = x
              /\ kalman' = measurement_update(time_update_u(kalman, dbicycle, u), dbicycle,
                                              calculate_output_noinput(dbicycle, x))
        /\ call' = Call("sample(u)", FALSE, [u |-> u], "void")
        /\ ncalls' = ncalls + 1
        /\ UNCHANGED <<bicycle, dbicycle, twin, main, server>>

\* one pass of the loop with a free-running plant: x = x_next(x); z = y(x);
\* time_update(); measurement_update(z)
Sample ==
    /\ ncalls < MaxSamples
    /\ \E x \in {update_state_noinput(dbicycle, plant)} :
          /\ plant' = x
          /\ kalman' = measurement_update(time_update(kalman, dbicycle), dbicycle,
                                          calculate_output_noinput(dbicycle, x))
    /\ call' = Call("sample()", FALSE, "void", "void")
    /\ ncalls' = ncalls + 1
    /\ UNCHANGED <<bicycle, dbicycle, twin, main, server>>

NextTracking ==
    \/ Sample_u
    \/ Sample

SpecTracking == InitTracking /\ [][NextTracking]_vars


(***************************************************************************)
(* Specification SpecNormalize: the three normalize_* functions of          *)
(* src/src/bicycle/bicycle.cc, which are pure: call holds the argument and  *)
(* the returned vector.                                                     *)
(***************************************************************************)
\* constants::two_pi, as a rational (22/7 for pi)
pi == Rat(22, 7)

two_pi == RMul(R(2), pi)

\* the integer part of the rational a, rounded toward zero
Trunc(a) == IF a[1] < 0 THEN -((-a[1]) \div a[2]) ELSE a[1] \div a[2]

\* std::fmod(a, b): a - b * trunc(a / b), exact, with the sign of a
fmod(a, b) == RSub(a, RMul(b, R(Trunc(RDiv(a, b)))))

\* vec with coefficient i replaced by std::fmod(vec[i], period)
FmodAt(vec, i, period) == [vec EXCEPT ![i] = [vec[i] EXCEPT ![0] = fmod(vec[i][0], period)]]

\* normalize_state with half a turn as the period
normalize_state_half_turn(x) == FmodAt(FmodAt(FmodAt(x, 0, pi), 1, pi), 2, pi)

normalize_state(x) == FmodAt(FmodAt(FmodAt(x, 0, two_pi), 1, two_pi), 2, two_pi)

normalize_output(y) == FmodAt(FmodAt(y, 0, two_pi), 1, two_pi)

\* normalize_auxiliary_state that wraps every component
normalize_auxiliary_state_wraps_all(x_aux) ==
    FmodAt(FmodAt(FmodAt(FmodAt(x_aux, 0, two_pi), 1, two_pi), 2, two_pi), 3, two_pi)

normalize_auxiliary_state(x_aux) == FmodAt(FmodAt(x_aux, 2, two_pi), 3, two_pi)

\* whole numbers of full turns
Turns == -3..3

\* angles within one full turn, of both signs
Thetas == {R(0), R(1), Rat(-5, 2), R(6)}

\* k full turns plus theta
Turned(k, theta) == RAdd(RMul(R(k), two_pi), theta)

\* values of the components that are not angles (rates, positions), some of
\* them larger than a full turn
NonAngles == {<<R(0), R(0)>>, <<R(7), Rat(-33, 4)>>}

\* the functions read no member of the object they are called on
InitNormalize ==
    /\ bicycle = "none"
    /\ call = Call("Bicycle", FALSE, "void", "void")
    /\ dbicycle = "none"
    /\ twin = "none"
    /\ kalman = "none"
    /\ plant = "none"
    /\ ncalls = 0
    /\ main = "none"
    /\ server = "none"

\* a call of a const member function with argument arg that returns ret;
\* angle is the index of the component made of k turns plus theta
DoNormalize(op, angle, k, theta, arg, ret) ==
    /\ CanCall
    /\ call' = Call(op, FALSE, [x |-> arg, index |-> angle, k |-> k, theta |-> theta], ret)
    /\ ncalls' = ncalls + 1
    /\ UNCHANGED <<bicycle, dbicycle, twin, kalman, plant, main, server>>

Call_normalize_state ==
    \E k \in Turns, theta \in Thetas, other \in {R(1), Turned(-2, R(-1))},
       rates \in NonAngles, i \in 0..2 :
        \E x \in {Column(<<IF i = 0 THEN Turned(k, theta) ELSE other,
                          IF i = 1 THEN Turned(k, theta) ELSE other,
                          IF i = 2 THEN Turned(k, theta) ELSE other,
                          rates[1], rates[2]>>)} :
            DoNormalize("normalize_state", i, k, theta, x, normalize_state(x))

Call_normalize_output ==
    \E k \in Turns, theta \in Thetas, other \in {R(1), Turned(-2, R(-1))}, i \in 0..1 :
        \E y \in {Column(<<IF i = 0 THEN Turned(k, theta) ELSE other,
                          IF i = 1 THEN Turned(k, theta) ELSE other>>)} :
            DoNormalize("normalize_output", i, k, theta, y, normalize_output(y))

Call_normalize_auxiliary_state ==
    \E k \in Turns, theta \in Thetas, other \in {R(1), Turned(-2, R(-1))},
       position \in NonAngles, i \in 2..3 :
        \E x_aux \in {Column(<<position[1], position[2],
                              IF i = 2 THEN Turned(k, theta) ELSE other,
                              IF i = 3 THEN Turned(k, theta) ELSE other>>)} :
            DoNormalize("normalize_auxiliary_state", i, k, theta, x_aux,
                        normalize_auxiliary_state(x_aux))

NextNormalize ==
    \/ Call_normalize_state
    \/ Call_normalize_output
    \/ Call_normalize_auxiliary_state

SpecNormalize == InitNormalize /\ [][NextNormalize]_vars


(***************************************************************************)
(* Specification SpecFile: Bicycle::Bicycle(param_file, v) of               *)
(* src/src/bicycle/bicycle.cc.  A parameter file is the text of a parameter *)
(* set, whole or damaged; bicycle is "none" until an object is constructed. *)
(***************************************************************************)
\* o*o, the number of values of one second order matrix in the file
num_elem == o * o

\* std::array<real_t, 4*num_elem + 5> buffer
BufferSize == 4 * num_elem + 5

\* the values of a parameter set in the order of the file: M, C1, K0, K2 row
\* by row, then w, c, lambda, rr, rf
FileValues(ps) ==
    << ps.M[0][0], ps.M[0][1], ps.M[1][0], ps.M[1][1],
       ps.C1[0][0], ps.C1[0][1], ps.C1[1][0], ps.C1[1][1],
       ps.K0[0][0], ps.K0[0][1], ps.K0[1][0], ps.K0[1][1],
       ps.K2[0][0], ps.K2[0][1], ps.K2[1][0], ps.K2[1][1],
       ps.w, ps.c, ps.lambda, ps.rr, ps.rf >>

\* parameter files: none at the path, the whole text, the text cut after
\* `at` values, the text with the value after `at` values replaced by a word
ParameterFiles ==
    { [kind |-> "missing", at |-> 0], [kind |-> "complete", at |-> BufferSize] } \cup
    [kind : {"truncated", "non_numeric"}, at : 0..(BufferSize - 1)]

\* what the storage of the local buffer holds before it is written
BufferGarbage ==
    { [i \in 1..BufferSize |-> IF i = 4 * num_elem + 3 THEN "0" ELSE R(0)],
      [i \in 1..BufferSize |-> IF i = 4 * num_elem + 3 THEN "atan(4/3)" ELSE R(1)] }

\* for (auto& d: buffer) pf >> d: the first `at` extractions succeed; an
\* extraction that fails on a word stores zero and sets failbit, one that
\* fails at the end of the text, or on a stream that has failed, stores
\* nothing
ReadBuffer(file, ps, garbage) ==
    [i \in 1..BufferSize |->
        IF i <= file.at THEN FileValues(ps)[i]
        ELSE IF file.kind = "non_numeric" /\ i = file.at + 1
        THEN (IF i = 4 * num_elem + 3 THEN "0" ELSE R(0))
        ELSE garbage[i]]

\* Eigen::Map<second_order_matrix_t>(buffer.data() + offset).transpose()
MapTranspose(buffer, offset) ==
    FromRows(<< <<buffer[offset + 1], buffer[offset + 2]>>,
                <<buffer[offset + 3], buffer[offset + 4]>> >>)

\* <<threw, parameters>>: throws when the stream is not good after opening
set_parameters_from_file(file, ps, garbage) ==
    IF file.kind = "missing" THEN <<TRUE, "none">>
    ELSE LET buffer == ReadBuffer(file, ps, garbage)
         IN  <<FALSE,
               [M  |-> MapTranspose(buffer, 0),
                C1 |-> MapTranspose(buffer, num_elem),
                K0 |-> MapTranspose(buffer, 2 * num_elem),
                K2 |-> MapTranspose(buffer, 3 * num_elem),
                w  |-> buffer[4 * num_elem + 1],
                c  |-> buffer[4 * num_elem + 2],
                lambda |-> buffer[4 * num_elem + 3],
                rr |-> buffer[4 * num_elem + 4],
                rf |-> buffer[4 * num_elem + 5]]>>

InitFile ==
    /\ bicycle = "none"
    /\ call = Call("main", FALSE, "void", "void")
    /\ dbicycle = "none"
    /\ twin = "none"
    /\ kalman = "none"
    /\ plant = "none"
    /\ ncalls = 0
    /\ main = "none"
    /\ server = "none"

\* Bicycle::Bicycle(param_file, v): ret is "Bicycle" when an object was
\* constructed, "invalid_argument" when the constructor threw, and "abort"
\* when eigen_assert ended the program in set_v
Call_Bicycle_param_file ==
    \E file \in ParameterFiles, ps \in ParameterSets, garbage \in BufferGarbage,
       v \in Speeds, llt0 \in LltGarbage, build \in Builds :
        /\ call.op = "main"
        /\ \E read \in {set_parameters_from_file(file, ps, garbage)} :
              IF read[1]
              THEN /\ bicycle' = "none"
                   /\ call' = Call("Bicycle(param_file, v)", FALSE,
                                   [file |-> file, v |-> v], "invalid_argument")
              ELSE IF build = "NDEBUG"
              THEN /\ bicycle' = Bicycle(read[2].M, read[2].C1, read[2].K0, read[2].K2,
                                         read[2].w, read[2].c, read[2].lambda,
                                         read[2].rr, read[2].rf, v, llt0)
                   /\ call' = Call("Bicycle(param_file, v)", FALSE,
                                   [file |-> file, v |-> v], "Bicycle")
              ELSE /\ bicycle' = "none"
                   /\ call' = [Call("Bicycle(param_file, v)", FALSE,
                                    [file |-> file, v |-> v], "abort")
                                  EXCEPT !.returned = FALSE]
        /\ ncalls' = ncalls + 1
        /\ UNCHANGED <<dbicycle, twin, kalman, plant, main, server>>

NextFile == Call_Bicycle_param_file

SpecFile == InitFile /\ [][NextFile]_vars


(***************************************************************************)
(* Specification SpecAuxiliary: a Bicycle of src/src/bicycle/bicycle.cc on  *)
(* which integrate_auxiliary_state is called, with changes of speed in      *)
(* between.                                                                 *)
(***************************************************************************)
\* states: yaw angle, roll angle, steer angle, roll rate, steer rate
AuxiliaryStates ==
    { [i \in 0..(n - 1) |-> IF i = 0 THEN psi ELSE IF i = 1 THEN Rat(1, 10) ELSE R(0)] :
        psi \in Angles }

\* auxiliary states: x, y, rear wheel angle, pitch angle
AuxiliaryInputs ==
    { [i \in 0..(p - 1) |-> R(0)],
      [i \in 0..(p - 1) |-> IF i = 0 THEN R(2) ELSE IF i = 1 THEN R(-1)
                            ELSE IF i = 2 THEN R(5) ELSE Rat(3, 10)] }

\* integration times
StepTimes == {R(0), Rat(1, 100), R(1)}

Call_integrate_auxiliary_state ==
    \E x \in AuxiliaryStates, x_aux \in AuxiliaryInputs, t \in StepTimes :
        \E r \in {integrate_auxiliary_state(bicycle, x, x_aux, t)} :
            Do("integrate_auxiliary_state", FALSE, [x |-> x, x_aux |-> x_aux, t |-> t],
               r[2], r[1])

NextAuxiliary ==
    \/ Call_integrate_auxiliary_state
    \/ Call_set_v

SpecAuxiliary == Init /\ [][NextAuxiliary]_vars


(***************************************************************************)
(* Specification SpecServer: main() of src/examples/udp.cc and the          *)
(* network::udp::Server of src/src/network_server.cc it sends the states    *)
(* with.  main is the simulation thread: its position, the number of        *)
(* samples sent, the vector x (whose storage is the buffer handed to        *)
(* async_send) and the array element state.  server is the Server: whether  *)
(* m_io_service is stopped, the asynchronous operations outstanding on      *)
(* m_socket, and the position of m_service_thread.                          *)
(*                                                                         *)
(* asio: an asynchronous operation is pending until the socket has carried  *)
(* it out; its handler is then ready and is called by the thread that runs  *)
(* io_service::run().  A send reads its buffer when the socket carries it   *)
(* out.  run() returns when the service is stopped or out of work.          *)
(***************************************************************************)
\* number of passes of the loop (N of udp.cc is 1000)
MaxIterations == 3

error_codes == {"success", "error"}

\* the vector x is represented by its sample number; x_next is the next one
x_next(x) == x + 1

Remove(ops, k) == SubSeq(ops, 1, k - 1) \o SubSeq(ops, k + 1, Len(ops))

\* Server before its constructor has run
no_server ==
    [m_io_service |-> [stopped |-> FALSE],
     m_socket |-> [receives |-> <<>>, sends |-> <<>>],
     m_service_thread |-> "not started"]

\* Server::Server: the socket is opened and the service thread is started
\* on run_service
Server(s) == [s EXCEPT !.m_service_thread = "run_service"]

\* Server::start_receive: one receive on m_socket
start_receive(s) ==
    [s EXCEPT !.m_socket.receives = Append(@, [state |-> "pending", ec |-> "none"])]

\* a handle_receive that starts the next receive only after a success
handle_receive_stops_on_error(s, error) ==
    IF error = "success" THEN start_receive(s) ELSE s

\* Server::handle_receive: prints, and starts the next receive
handle_receive(s, error) == start_receive(s)

\* Server::handle_send: prints
handle_send(s, error) == s

\* Server::async_send: one send on m_socket of the caller's buffer; the
\* operation keeps the address of the buffer, not a copy (issued records what
\* the buffer held at the call)
async_send(s, buffer) ==
    [s EXCEPT !.m_socket.sends =
        Append(@, [state |-> "pending", ec |-> "none", issued |-> buffer,
                   transmitted |-> <<>>])]

\* io_service::stop
stop(s) == [s EXCEPT !.m_io_service.stopped = TRUE]

\* io_service::run has nothing left to wait for
OutOfWork(s) == s.m_socket.receives = <<>> /\ s.m_socket.sends = <<>>

\* Server::wait_for_send_complete returns: no send is outstanding
send_complete(s) == s.m_socket.sends = <<>>

InitServer ==
    /\ main = [pc |-> "Server", i |-> 0, x |-> 0, state |-> 0]
    /\ server = no_server
    /\ bicycle = "none"
    /\ dbicycle = "none"
    /\ twin = "none"
    /\ kalman = "none"
    /\ plant = "none"
    /\ call = "none"
    /\ ncalls = 0

MainStep(pc, next) ==
    /\ main.pc = pc
    /\ main' = next
    /\ UNCHANGED <<bicycle, dbicycle, twin, kalman, plant, call, ncalls>>

\* network::udp::Server server;
Main_Server ==
    /\ MainStep("Server", [main EXCEPT !.pc = "x_next"])
    /\ server' = Server(server)

\* state = bicycle.x_next(x);
Main_x_next ==
    /\ MainStep("x_next", [main EXCEPT !.state = x_next(main.x), !.pc = "x = state"])
    /\ UNCHANGED server

\* x = state;
Main_assign ==
    /\ MainStep("x = state", [main EXCEPT !.x = main.state,
                                          !.pc = "wait_for_send_complete"])
    /\ UNCHANGED server

\* server.wait_for_send_complete(); in the loop and after it
Main_wait_for_send_complete ==
    /\ send_complete(server)
    /\ MainStep("wait_for_send_complete",
                [main EXCEPT !.pc = IF main.i < MaxIterations THEN "async_send"
                                                             ELSE "sleep_for"])
    /\ UNCHANGED server

\* server.async_send(x.data(), ...); and the loop's increment and test
Main_async_send ==
    /\ MainStep("async_send",
                [main EXCEPT !.i = main.i + 1,
                             !.pc = IF main.i + 1 < MaxIterations THEN "x_next"
                                    ELSE "wait_for_send_complete"])
    /\ server' = async_send(server, main.x)

\* std::this_thread::sleep_for(1 ms) and the output that follows
Main_sleep_for ==
    /\ MainStep("sleep_for", [main EXCEPT !.pc = "~Server"])
    /\ UNCHANGED server

\* Server::~Server: m_io_service.stop();
Main_stop ==
    /\ MainStep("~Server", [main EXCEPT !.pc = "join"])
    /\ server' = stop(server)

\* Server::~Server: m_service_thread.join(); returns when run_service has
Main_join ==
    /\ server.m_service_thread = "finished"
    /\ MainStep("join", [main EXCEPT !.pc = "done"])
    /\ UNCHANGED server

ServiceStep(pc, next) ==
    /\ server.m_service_thread = pc
    /\ server' = next
    /\ UNCHANGED <<bicycle, dbicycle, twin, kalman, plant, call, ncalls, main>>

\* Server::run_service: start_receive(); then m_io_service.run()
Service_start_receive ==
    ServiceStep("run_service", [start_receive(server) EXCEPT !.m_service_thread = "run"])

\* io_service::run calls the handler of a receive that is ready
Service_handle_receive ==
    /\ ~server.m_io_service.stopped
    /\ \E k \in DOMAIN server.m_socket.receives :
          /\ server.m_socket.receives[k].state = "ready"
          /\ ServiceStep("run",
                handle_receive([server EXCEPT !.m_socket.receives = Remove(@, k)],
                               server.m_socket.receives[k].ec))

\* io_service::run calls the handler of a send that is ready
Service_handle_send ==
    /\ ~server.m_io_service.stopped
    /\ \E k \in DOMAIN server.m_socket.sends :
          /\ server.m_socket.sends[k].state = "ready"
          /\ ServiceStep("run",
                handle_send([server EXCEPT !.m_socket.sends = Remove(@, k)],
                            server.m_socket.sends[k].ec))

\* io_service::run returns (stopped, or out of work) and run_service ends
Service_run_returns ==
    /\ server.m_io_service.stopped \/ OutOfWork(server)
    /\ ServiceStep("run", [server EXCEPT !.m_service_thread = "finished"])

\* the socket completes a receive: a datagram arrived, or an error
Socket_receives ==
    /\ \E k \in DOMAIN server.m_socket.receives, ec \in error_codes :
          /\ server.m_socket.receives[k].state = "pending"
          /\ server' = [server EXCEPT !.m_socket.receives[k] =
                            [state |-> "ready", ec |-> ec]]
    /\ UNCHANGED <<bicycle, dbicycle, twin, kalman, plant, call, ncalls, main>>

\* the socket carries out a send: it reads the buffer as it is now
Socket_sends ==
    /\ \E k \in DOMAIN server.m_socket.sends, ec \in error_codes :
          /\ server.m_socket.sends[k].state = "pending"
          /\ server' = [server EXCEPT !.m_socket.sends[k] =
                            [@ EXCEPT !.state = "ready", !.ec = ec,
                                      !.transmitted = IF ec = "success"
                                                      THEN <<main.x>> ELSE <<>>]]
    /\ UNCHANGED <<bicycle, dbicycle, twin, kalman, plant, call, ncalls, main>>

MainThread ==
    \/ Main_Server
    \/ Main_x_next
    \/ Main_assign
    \/ Main_wait_for_send_complete
    \/ Main_async_send
    \/ Main_sleep_for
    \/ Main_stop
    \/ Main_join

ServiceThread ==
    \/ Service_start_receive
    \/ Service_handle_receive
    \/ Service_handle_send
    \/ Service_run_returns

NextServer ==
    \/ Main_Server
    \/ Main_x_next
    \/ Main_assign
    \/ Main_wait_for_send_complete
    \/ Main_async_send
    \/ Main_sleep_for
    \/ Main_stop
    \/ Main_join
    \/ Service_start_receive
    \/ Service_handle_receive
    \/ Service_handle_send
    \/ Service_run_returns
    \/ Socket_receives
    \/ Socket_sends

SpecServer == InitServer /\ [][NextServer]_vars

\* the threads are scheduled: a thread that can take a step eventually does
SpecServerFair ==
    /\ InitServer /\ [][NextServer]_vars
    /\ WF_vars(MainThread)
    /\ WF_vars(ServiceThread)

(***************************************************************************)
(* Properties of the discrete model of src/src/bicycle.cc (SpecDiscrete).  *)
(***************************************************************************)
\* the last call fixed the operating point (v, dt) of the discrete model
SetsOperatingPoint == call.op \in {"Bicycle", "set_v_dt"}

HasTable == dbicycle.m_discrete_state_space_map # nullptr

\* the caller's table has an entry under the key of the current (v, dt)
TableHasKey ==
    /\ HasTable
    /\ make_state_space_map_key(dbicycle.m_v, dbicycle.m_dt) \in
           DOMAIN Deref(dbicycle.m_discrete_state_space_map)

TableEntry ==
    Deref(dbicycle.m_discrete_state_space_map)[
        make_state_space_map_key(dbicycle.m_v, dbicycle.m_dt)]

\* C1: after set_v_dt(v, 0), whatever the speed, the state before the call
\* and the lookup table, Ad is the identity and Bd is zero.
C1_ZeroSampleTime ==
    (call.op = "set_v_dt" /\ call.arg.dt = R(0)) =>
        /\ dbicycle.m_Ad = [i \in 0..(n - 1) |->
                               [j \in 0..(n - 1) |-> IF i = j THEN R(1) ELSE R(0)]]
        /\ dbicycle.m_Bd = [i \in 0..(n - 1) |-> [j \in 0..(m - 1) |-> R(0)]]

\* set_v_dt(vc, 0) on a model whose table has an entry under the key of
\* (vc, 0), after a call that left other discrete matrices
C1_Witness ==
    /\ call.op = "set_v_dt" /\ call.arg.dt = R(0) /\ call.arg.v = vc
    /\ ncalls = 2
    /\ TableHasKey
    /\ dbicycle.m_Ad = MatIdentity(n, n) /\ dbicycle.m_Bd = MatZero(n, m)
    /\ dbicycle.m_A # MatZero(n, n)

\* C2 (as stated): for every v and every dt, when the table has an entry for
\* the key of (v, dt), Ad and Bd after construction or set_v_dt(v, dt) are
\* the table's pair.
C2_CachePrecedence ==
    (SetsOperatingPoint /\ TableHasKey) =>
        /\ dbicycle.m_Ad = TableEntry[1]
        /\ dbicycle.m_Bd = TableEntry[2]

\* C2 (amended): for every v and every dt other than 0, when the table has an
\* entry for the key of (v, dt), Ad and Bd after construction or
\* set_v_dt(v, dt) are the table's pair; with dt = 0 the table is not read.
C2_CachePrecedenceNonzeroDt ==
    (SetsOperatingPoint /\ TableHasKey) =>
        IF dbicycle.m_dt # R(0)
        THEN /\ dbicycle.m_Ad = TableEntry[1]
             /\ dbicycle.m_Bd = TableEntry[2]
        ELSE /\ dbicycle.m_Ad = MatIdentity(n, n)
             /\ dbicycle.m_Bd = MatZero(n, m)

\* a hit after set_v_dt, where the placeholders of the table differ from
\* what the model without a table computed
C2_Witness ==
    /\ call.op = "set_v_dt" /\ TableHasKey /\ dbicycle.m_dt # R(0)
    /\ dbicycle.m_Ad = TableEntry[1] /\ dbicycle.m_Bd = TableEntry[2]
    /\ dbicycle.m_Ad # twin.m_Ad /\ dbicycle.m_Bd # twin.m_Bd

PhysicalParameterSetters ==
    {"set_M", "set_C1", "set_K0", "set_K2",
     "set_wheelbase", "set_trail", "set_steer_axis_tilt"}

GeometrySetters ==
    {"set_wheelbase", "set_trail", "set_steer_axis_tilt",
     "set_rear_wheel_radius", "set_front_wheel_radius"}

\* the member a setter stores its argument in
StoredParameter(b, op) ==
    CASE op = "set_M" -> b.m_M
      [] op = "set_C1" -> b.m_C1
      [] op = "set_K0" -> b.m_K0
      [] op = "set_K2" -> b.m_K2
      [] op = "set_wheelbase" -> b.m_w
      [] op = "set_trail" -> b.m_c
      [] op = "set_steer_axis_tilt" -> b.m_lambda
      [] op = "set_rear_wheel_radius" -> b.m_rr
      [] op = "set_front_wheel_radius" -> b.m_rf

\* The state matrix the parameters and the speed of b define:
\*   A = [0  0  v cos(lambda)/w  0  c cos(lambda)/w]
\*       [0                0                    I  ]
\*       [0  -M^-1 (g K0 + v^2 K2)     -M^-1 v C1  ]
DerivedA(b) ==
    LET Minv == Inverse(b.m_M)
        K    == MatAdd(MatScale(g, b.m_K0), MatScale(RMul(b.m_v, b.m_v), b.m_K2))
        MK   == MatNeg(MatMul(Minv, K))
        MC   == MatNeg(MatMul(Minv, MatScale(b.m_v, b.m_C1)))
    IN  FromRows(<<
          <<R(0), R(0), RDiv(RMul(b.m_v, Cos(b.m_lambda)), b.m_w),
            R(0), RDiv(RMul(b.m_c, Cos(b.m_lambda)), b.m_w)>>,
          <<R(0), R(0), R(0), R(1), R(0)>>,
          <<R(0), R(0), R(0), R(0), R(1)>>,
          <<R(0), MK[0][0], MK[0][1], MC[0][0], MC[0][1]>>,
          <<R(0), MK[1][0], MK[1][1], MC[1][0], MC[1][1]>> >>)

\* The input matrix the parameters of b define: B = [0; M^-1]
DerivedB(b) ==
    LET Minv == Inverse(b.m_M)
    IN  FromRows(<<
          <<R(0), R(0)>>, <<R(0), R(0)>>, <<R(0), R(0)>>,
          <<Minv[0][0], Minv[0][1]>>,
          <<Minv[1][0], Minv[1][1]>> >>)

\* The Moore parameters the geometry of b defines:
\*   d1 = cos(lambda) (c + w - rr tan(lambda))
\*   d3 = -cos(lambda) (c - rf tan(lambda))
\*   d2 = (rr + d1 sin(lambda) - rf + d3 sin(lambda)) / cos(lambda)
DerivedMoore(b) ==
    LET d1 == RMul(Cos(b.m_lambda),
                   RSub(RAdd(b.m_c, b.m_w), RMul(b.m_rr, Tan(b.m_lambda))))
        d3 == RNeg(RMul(Cos(b.m_lambda),
                        RSub(b.m_c, RMul(b.m_rf, Tan(b.m_lambda)))))
        d2 == RDiv(RAdd(RSub(RAdd(b.m_rr, RMul(d1, Sin(b.m_lambda))), b.m_rf),
                        RMul(d3, Sin(b.m_lambda))),
                   Cos(b.m_lambda))
    IN  [d1 |-> d1, d2 |-> d2, d3 |-> d3]

CachedMoore(b) == [d1 |-> b.m_d1, d2 |-> b.m_d2, d3 |-> b.m_d3]

\* the step is a call of a physical-parameter setter with the flag false
DeferredSetterStep ==
    /\ ncalls' = ncalls + 1
    /\ call'.op \in PhysicalParameterSetters
    /\ ~call'.flag

\* the step ran set_state_space(): directly, through set_v, or through a
\* setter called with the flag true
RecalculatingStep ==
    /\ ncalls' = ncalls + 1
    /\ \/ call'.op \in {"set_v", "set_state_space"}
       \/ call'.op \in PhysicalParameterSetters /\ call'.flag

\* C4: a physical-parameter setter called with the flag false stores the
\* parameter, makes need_recalculate_state_space() true and leaves A and B
\* as they were; A and B change only in a step that runs set_state_space().
C4_DirtyFlagLaziness ==
    [][ /\ DeferredSetterStep =>
              /\ StoredParameter(bicycle', call'.op) = call'.arg
              /\ need_recalculate_state_space(bicycle')
              /\ bicycle'.m_A = bicycle.m_A
              /\ bicycle'.m_B = bicycle.m_B
        /\ (bicycle'.m_A # bicycle.m_A \/ bicycle'.m_B # bicycle.m_B) =>
              RecalculatingStep ]_vars

\* after set_M(M, false) with another mass matrix: M is stored, the flag is
\* raised, and B is still the one of the mass matrix before
C4_Witness ==
    /\ call.op = "set_M" /\ ~call.flag /\ call.returned
    /\ bicycle.m_M = call.arg
    /\ need_recalculate_state_space(bicycle)
    /\ bicycle.m_B # DerivedB(bicycle)

\* the step is a call of the accessor A() or B()
AccessorStep ==
    /\ ncalls' = ncalls + 1
    /\ call'.op \in {"A", "B"}

\* C5 (as stated): after a parameter mutation with deferred recompute, the
\* next call of A() or B() returns matrices derived from the new parameter
\* values, and the dirty flag is false afterwards.
C5_AccessorRecomputes ==
    [][ (call.op \in PhysicalParameterSetters /\ ~call.flag /\ AccessorStep) =>
            /\ call'.ret = (IF call'.op = "A" THEN DerivedA(bicycle')
                                               ELSE DerivedB(bicycle'))
            /\ ~need_recalculate_state_space(bicycle') ]_vars

\* C5 (amended): A() and B() return the stored matrices and change nothing:
\* after a parameter mutation with deferred recompute, the next call of A()
\* or B() returns the matrices stored before it and the dirty flag is still
\* true afterwards.
C5_AccessorReturnsStored ==
    [][ AccessorStep =>
            /\ call'.ret = (IF call'.op = "A" THEN bicycle.m_A ELSE bicycle.m_B)
            /\ bicycle' = bicycle
            /\ (call.op \in PhysicalParameterSetters /\ ~call.flag) =>
                   need_recalculate_state_space(bicycle') ]_vars

\* B() called while the flag is raised by set_M(M, false): what it returns
\* is the stored B, which is not the one of the stored mass matrix
C5_Witness ==
    /\ call.op = "B" /\ ncalls = 2
    /\ need_recalculate_state_space(bicycle)
    /\ call.ret = bicycle.m_B
    /\ call.ret # DerivedB(bicycle)

\* C6: a physical-parameter setter called with the flag true returns with
\* need_recalculate_state_space() false and with A and B the matrices
\* derived from the current M, C1, K0, K2, w, c, lambda and v.
C6_RecomputeNow ==
    (call.op \in PhysicalParameterSetters /\ call.flag /\ call.returned) =>
        /\ ~need_recalculate_state_space(bicycle)
        /\ bicycle.m_A = DerivedA(bicycle)
        /\ bicycle.m_B = DerivedB(bicycle)

\* C7: when a constructor has returned, both recalculate flags are false and
\* A, B and d1, d2, d3 are the values derived from the parameters and the
\* speed it was given.
C7_ConstructionBuilds ==
    (call.op = "Bicycle" /\ call.returned) =>
        /\ ~need_recalculate_state_space(bicycle)
        /\ ~need_recalculate_moore_parameters(bicycle)
        /\ bicycle.m_A = DerivedA(bicycle)
        /\ bicycle.m_B = DerivedB(bicycle)
        /\ CachedMoore(bicycle) = DerivedMoore(bicycle)

\* C8: after set_v(v), from a dirty or a clean state, v() is v,
\* need_recalculate_state_space() is false, and A and B are derived from the
\* stored parameters and v.
C8_SetVRecalculates ==
    (call.op = "set_v" /\ call.returned) =>
        /\ bicycle.m_v = call.arg
        /\ ~need_recalculate_state_space(bicycle)
        /\ bicycle.m_A = DerivedA(bicycle)
        /\ bicycle.m_B = DerivedB(bicycle)

\* the step is a call of solve_constraint_pitch
SolveStep ==
    /\ ncalls' = ncalls + 1
    /\ call'.op = "solve_constraint_pitch"

\* C9 (as stated): after any call of a geometry setter, the d1, d2, d3 the
\* next solve_constraint_pitch uses are the Moore formulas on the current w,
\* c, lambda, rr and rf.
C9_MooreFollowsGeometry ==
    [][ (call.op \in GeometrySetters /\ SolveStep) =>
            [d1 |-> call'.ret.d1, d2 |-> call'.ret.d2, d3 |-> call'.ret.d3]
                = DerivedMoore(bicycle') ]_vars

\* C9 (amended): a geometry setter called with the flag true leaves d1, d2,
\* d3 the Moore formulas on the current w, c, lambda, rr and rf; called with
\* the flag false it leaves d1, d2, d3 as they were and makes
\* need_recalculate_moore_parameters() true; solve_constraint_pitch uses the
\* cached d1, d2, d3 as they are.
C9_MooreFollowsFlag ==
    [][ /\ (ncalls' = ncalls + 1 /\ call'.op \in GeometrySetters) =>
              IF call'.flag
              THEN /\ CachedMoore(bicycle') = DerivedMoore(bicycle')
                   /\ ~need_recalculate_moore_parameters(bicycle')
              ELSE /\ CachedMoore(bicycle') = CachedMoore(bicycle)
                   /\ need_recalculate_moore_parameters(bicycle')
        /\ SolveStep =>
              /\ [d1 |-> call'.ret.d1, d2 |-> call'.ret.d2, d3 |-> call'.ret.d3]
                     = CachedMoore(bicycle)
              /\ bicycle' = bicycle ]_vars

\* solve_constraint_pitch after a geometry setter called with the flag
\* false: the d1, d2, d3 it used are not those of the current geometry
C9_Witness ==
    /\ call.op = "solve_constraint_pitch" /\ ncalls = 2
    /\ need_recalculate_moore_parameters(bicycle)
    /\ [d1 |-> call.ret.d1, d2 |-> call.ret.d2, d3 |-> call.ret.d3]
           # DerivedMoore(bicycle)

\* the exponential of [[A, B], [0, 0]] * dt for the A, B and dt the model
\* holds
AugmentedExp ==
    MatExp(MatScale(dbicycle.m_dt,
        SetBlock(SetBlock(MatZero(n + m, n + m), 0, 0, dbicycle.m_A), 0, n, dbicycle.m_B)))

\* the last call ran the discretization: dt > 0 and no table entry was used
Discretized ==
    /\ call.op \in {"Bicycle", "set_v_dt", "set_state_space"}
    /\ dbicycle.m_dt[1] > 0
    /\ ~TableHasKey

\* every coefficient is a number
IsFinite(X) == \A i \in DOMAIN X : \A j \in DOMAIN X[i] : X[i][j][2] # 0

\* C16: when dt > 0, no table entry is used and the exponential fails the
\* bottom-block check, set_v_dt (and the constructor, and set_state_space)
\* reports the warning and nothing more: Ad and Bd are the top blocks of the
\* exponential, the dirty flag is clear and the call has returned.
C16_ValidationFailureIsNonFatal ==
    Discretized =>
        \E T \in {AugmentedExp} :
            (~IsZero(Block(T, n, 0, m, n)) \/ ~IsIdentity(Block(T, n, n, m, m))) =>
                /\ dbicycle.warning
                /\ dbicycle.m_Ad = Block(T, 0, 0, n, n)
                /\ dbicycle.m_Bd = Block(T, 0, n, n, m)
                /\ ~dbicycle.m_recalculate_state_space
                /\ call.returned

\* the second set_v_dt, with an infinite speed and dt > 0 on a model with a
\* table that has no entry for it: the warning was reported and Ad, which
\* has coefficients that are not numbers, was assigned
C16_Witness ==
    /\ call.op = "set_v_dt" /\ ncalls = 2
    /\ call.arg.v = infinity
    /\ HasTable /\ Discretized
    /\ dbicycle.warning
    /\ ~IsFinite(dbicycle.m_Ad)
    /\ ~IsZero(Block(AugmentedExp, n, 0, m, n))
    /\ call.returned

C18_InvalidInputFailsFast ==
    (call.op = "Bicycle(param_file, v)" /\ call.arg.file.kind # "complete") =>
        call.ret = "invalid_argument"

(***************************************************************************)
(* Properties of the Kalman filter on the discrete model (SpecKalman).      *)
(***************************************************************************)
\* the step is a call of one of the four time_update overloads
TimeUpdateStep ==
    /\ ncalls' = ncalls + 1
    /\ call'.op \in {"time_update()", "time_update(Q)",
                      "time_update(u)", "time_update(u, Q)"}

\* C10: time_update([u], [Q]) replaces the estimate x by Ad x + Bd u (by
\* Ad x without u) and P by Ad P Ad^T + Q, with Ad, Bd the current discrete
\* matrices of the wrapped model and Q the argument when given, else the
\* stored Q; the stored Q and the model are left alone.
C10_TimeUpdate ==
    [][ TimeUpdateStep =>
          LET Ad == dbicycle.m_Ad
              Bd == dbicycle.m_Bd
              Q  == IF call'.op \in {"time_update(Q)", "time_update(u, Q)"}
                    THEN call'.arg.Q ELSE kalman.m_Q
          IN  /\ kalman'.m_x =
                    (IF call'.op \in {"time_update(u)", "time_update(u, Q)"}
                     THEN MatAdd(MatMul(Ad, kalman.m_x), MatMul(Bd, call'.arg.u))
                     ELSE MatMul(Ad, kalman.m_x))
              /\ kalman'.m_P =
                    MatAdd(MatMul(MatMul(Ad, kalman.m_P), MatTranspose(Ad)), Q)
              /\ kalman'.m_Q = kalman.m_Q
              /\ dbicycle' = dbicycle ]_vars

\* time_update(u, Q) with a nonzero input and a Q other than the stored
\* one, on a model with a nonzero sample time, Ad other than the identity
\* and a nonzero Bd
C10_Witness ==
    /\ call.op = "time_update(u, Q)"
    /\ call.arg.Q # kalman.m_Q
    /\ call.arg.u # MatZero(m, 1)
    /\ dbicycle.m_dt # R(0)
    /\ dbicycle.m_Ad # MatIdentity(n, n)
    /\ dbicycle.m_Bd # MatZero(n, m)
    /\ kalman.m_x # MatZero(n, 1)
    /\ kalman.m_P # call.arg.Q

\* the step is a call of one of the two measurement_update overloads
MeasurementUpdateStep ==
    /\ ncalls' = ncalls + 1
    /\ call'.op \in {"measurement_update(z)", "measurement_update(z, R)"}

\* C11: measurement_update(z, [R]) forms S = C P C^T + R and the gain
\* K = P C^T S^-1 from the covariance P it starts with (R the argument when
\* given, else the stored R), then replaces x by x + K (z - C x) and P by
\* (I - K C) P with that gain; K() afterwards returns that gain.
C11_MeasurementUpdate ==
    [][ MeasurementUpdateStep =>
          LET C  == dbicycle.m_C
              R0 == IF call'.op = "measurement_update(z, R)"
                    THEN call'.arg.R ELSE kalman.m_R
          IN  \E PCt \in {MatMul(kalman.m_P, MatTranspose(C))} :
              \E S \in {MatAdd(MatMul(C, PCt), R0)} :
              \E K \in {MatMul(PCt, Inverse(S))} :
                /\ Kalman_K(kalman') = K
                /\ Kalman_x(kalman') =
                      MatAdd(kalman.m_x,
                             MatMul(K, MatAdd(call'.arg.z,
                                              MatNeg(MatMul(C, kalman.m_x)))))
                /\ Kalman_P(kalman') =
                      MatMul(MatAdd(MatIdentity(n, n), MatNeg(MatMul(K, C))),
                             kalman.m_P) ]_vars

\* measurement_update(z, R) with an R other than the stored one and a
\* measurement that moved the estimate, on a nonzero covariance that the
\* update changed (the gain is nonzero)
C11_Witness ==
    /\ call.op = "measurement_update(z, R)"
    /\ call.arg.R # kalman.m_R
    /\ call.arg.z # MatZero(l, 1)
    /\ Kalman_K(kalman) # MatZero(n, l)
    /\ Kalman_P(kalman) # MatZero(n, n)
    /\ Kalman_x(kalman) # MatZero(n, 1)

\* the step is a call of any overload of the filter
FilterStep == TimeUpdateStep \/ MeasurementUpdateStep

\* C12: no call of time_update or measurement_update, with or without an
\* override Q or R, changes what Q() and R() return: they stay the matrices
\* the filter was constructed with.
C12_OverridesKeepDefaults ==
    [][ FilterStep =>
          /\ Kalman_Q(kalman') = Kalman_Q(kalman)
          /\ Kalman_R(kalman') = Kalman_R(kalman) ]_vars

\* a measurement_update(z, R) with an override R that directly follows a
\* time_update with an override Q (the covariance now holds that Q, which is
\* not the stored one)
C12_Witness ==
    /\ call.op = "measurement_update(z, R)"
    /\ ncalls = 2
    /\ call.arg.R # Kalman_R(kalman)
    /\ Kalman_Q(kalman) = MatZero(n, n)
    /\ Kalman_P(kalman) # MatZero(n, n)
    /\ Kalman_K(kalman) # MatZero(n, l)

(***************************************************************************)
(* Properties of the noiseless sampling loop (SpecTracking).                *)
(***************************************************************************)
\* C13: the filter starts at the true state with Q = 0; after every sample
\* (plant advanced by the model, time_update with the same input,
\* measurement_update with the output of the true state) the estimate is
\* the true state.
C13_ZeroNoiseTracking ==
    call.op \in {"Kalman", "sample(u)", "sample()"} =>
        (Kalman_Q(kalman) = MatZero(n, n) => Kalman_x(kalman) = plant)

\* two samples, the last one with a nonzero input, after which the true
\* state is nonzero, the gain is nonzero and the model's Ad is not the
\* identity
C13_Witness ==
    /\ call.op = "sample(u)"
    /\ ncalls = 2
    /\ call.arg.u # MatZero(m, 1)
    /\ plant # MatZero(n, 1)
    /\ Kalman_K(kalman) # MatZero(n, l)
    /\ dbicycle.m_Ad # MatIdentity(n, n)
    /\ Kalman_Q(kalman) = MatZero(n, n)

(***************************************************************************)
(* Properties of the normalize_* functions (SpecNormalize).                 *)
(***************************************************************************)
\* a and b differ by a whole number of full turns
Congruent(a, b) == RDiv(RSub(a, b), two_pi)[2] = 1

\* C14: normalize_state of a state whose yaw (roll, steer) is k full turns
\* plus theta returns a yaw (roll, steer) congruent to theta modulo one full
\* turn, for every whole k and every theta; so is every other angle of the
\* returned state to the angle given.
C14_AngleNormalization ==
    call.op = "normalize_state" =>
        /\ Congruent(call.ret[call.arg.index][0], call.arg.theta)
        /\ \A i \in 0..2 : Congruent(call.ret[i][0], call.arg.x[i][0])

\* normalize_state on three full turns plus a nonzero theta in the yaw: the
\* returned yaw is not the yaw given
C14_Witness ==
    /\ call.op = "normalize_state"
    /\ call.arg.k = 3
    /\ call.arg.index = 0
    /\ call.arg.theta # R(0)
    /\ call.ret[0][0] # call.arg.x[0][0]
    /\ call.ret[0][0] = call.arg.theta

\* C15: normalize_state returns the roll rate and steer rate it was given,
\* normalize_auxiliary_state returns the x and y position it was given, and
\* normalize_output returns a vector of the two output angles only.
C15_NonAnglesUnchanged ==
    /\ call.op = "normalize_state" =>
          /\ call.ret[3] = call.arg.x[3]
          /\ call.ret[4] = call.arg.x[4]
          /\ DOMAIN call.ret = 0..(n - 1)
    /\ call.op = "normalize_auxiliary_state" =>
          /\ call.ret[0] = call.arg.x[0]
          /\ call.ret[1] = call.arg.x[1]
          /\ DOMAIN call.ret = 0..(p - 1)
    /\ call.op = "normalize_output" => DOMAIN call.ret = 0..(l - 1)

\* normalize_auxiliary_state on positions larger than a full turn, with
\* both angles altered
C15_Witness ==
    /\ call.op = "normalize_auxiliary_state"
    /\ call.arg.x[0][0] = R(7)
    /\ call.arg.x[1][0] = Rat(-33, 4)
    /\ call.ret[2] # call.arg.x[2]
    /\ call.ret[3] # call.arg.x[3]

(***************************************************************************)
(* Properties of the integrators (SpecAuxiliary).                           *)
(***************************************************************************)
\* the same model before any integration: same parameters, a stepper that
\* has made no step
NeverIntegrated(b) == [b EXCEPT !.m_auxiliary_stepper = runge_kutta_dopri5]

\* C20: what integrate_auxiliary_state(x, x_aux, t) returns depends on its
\* arguments and on the parameters of the model only: it is what the same
\* call returns on a model with the same parameters that has not integrated
\* before.
C20_IntegratorsReusable ==
    call.op = "integrate_auxiliary_state" =>
        call.ret = integrate_auxiliary_state(NeverIntegrated(bicycle), call.arg.x,
                                             call.arg.x_aux, call.arg.t)[2]

(***************************************************************************)
(* Structure of the continuous-time matrices (Spec).                        *)
(***************************************************************************)
\* C21: for every speed, once the state space is set (the call returned and
\* need_recalculate_state_space() is false), A(0, steer angle) is
\* v cos(lambda)/w, A(0, steer rate) is c cos(lambda)/w, the first column of
\* A is zero, rows 1 and 2 of A are [0 0 0 1 0] and [0 0 0 0 1], and B is
\* [0; M^-1], in which the speed does not occur.
C21_ContinuousStructure ==
    (call.returned /\ ~need_recalculate_state_space(bicycle)) =>
        /\ bicycle.m_A[0][2] = RDiv(RMul(bicycle.m_v, Cos(bicycle.m_lambda)), bicycle.m_w)
        /\ bicycle.m_A[0][4] = RDiv(RMul(bicycle.m_c, Cos(bicycle.m_lambda)), bicycle.m_w)
        /\ \A i \in 0..(n - 1) : bicycle.m_A[i][0] = R(0)
        /\ bicycle.m_A[1] = [j \in 0..(n - 1) |-> IF j = 3 THEN R(1) ELSE R(0)]
        /\ bicycle.m_A[2] = [j \in 0..(n - 1) |-> IF j = 4 THEN R(1) ELSE R(0)]
        /\ \E Minv \in {Inverse(bicycle.m_M)} :
              bicycle.m_B = [i \in 0..(n - 1) |-> [j \in 0..(m - 1) |->
                                IF i < n - o THEN R(0) ELSE Minv[i - (n - o)][j]]]

\* the second call, a set_v to speed 3 that follows a change of the mass
\* matrix: the steer angle entry of A is not zero and B is not the B of
\* construction
C21_Witness ==
    /\ call.op = "set_v" /\ call.returned /\ ncalls = 2
    /\ bicycle.m_v = R(3)
    /\ ~need_recalculate_state_space(bicycle)
    /\ bicycle.m_A[0][2] # R(0)
    /\ bicycle.m_A[0][4] # R(0)
    /\ \E ps \in ParameterSets : bicycle.m_M # ps.M

(***************************************************************************)
(* Auxiliary integration (SpecAuxiliary).                                   *)
(***************************************************************************)
\* the auxiliary state after span t at the rates of the yaw angle psi held
\* fixed: x, y and the rear wheel angle advance by v cos(psi) t, v sin(psi) t
\* and -v t/rr; pitch is what solve_constraint_pitch returns for the roll and
\* steer angles of x, seeded with the pitch of x_aux
AdvancedAtFixedYaw(b, x, x_aux, t) ==
    [i \in 0..(p - 1) |->
        IF i = 0 THEN RAdd(x_aux[0], RMul(t, RMul(b.m_v, Cos(x[0]))))
        ELSE IF i = 1 THEN RAdd(x_aux[1], RMul(t, RMul(b.m_v, Sin(x[0]))))
        ELSE IF i = 2 THEN RAdd(x_aux[2], RMul(t, RNeg(RDiv(b.m_v, b.m_rr))))
        ELSE solve_constraint_pitch(b, x[1], x[2], x_aux[3])]

\* C22: integrate_auxiliary_state(x, x_aux, t) returns x_aux advanced by the
\* rates v cos(yaw), v sin(yaw), -v/rr over t with the yaw of x held fixed,
\* and as pitch the result of solve_constraint_pitch(roll of x, steer of x,
\* pitch of x_aux).
C22_AuxiliaryIntegration ==
    call.op = "integrate_auxiliary_state" =>
        call.ret = AdvancedAtFixedYaw(bicycle, call.arg.x, call.arg.x_aux, call.arg.t)

(***************************************************************************)
(* Discrete advance (SpecDiscrete).                                         *)
(***************************************************************************)
\* update_state(x, u) returned Ad x + Bd u for the stored Ad, Bd, and x
\* itself when the sample time is 0
AdvancedWithInput ==
    call.op = "update_state" =>
        /\ call.ret = MatAdd(MatMul(dbicycle.m_Ad, call.arg.x),
                             MatMul(dbicycle.m_Bd, call.arg.u))
        /\ dbicycle.m_dt = R(0) => call.ret = call.arg.x

\* update_state(x, u, z) returned what update_state(x, u) returns, and would
\* have for every other measurement
MeasurementIgnored ==
    call.op = "update_state_z" =>
        \A z \in Measurements :
            /\ call.ret = update_state(dbicycle, call.arg.x, call.arg.u)
            /\ call.ret = update_state_z(dbicycle, call.arg.x, call.arg.u, z)

\* update_state(x) returned what update_state(x, 0) returns
NoInputIsZeroInput ==
    call.op = "update_state_noinput" =>
        call.ret = update_state(dbicycle, call.arg.x, MatZero(m, 1))

\* C23: update_state(x, u) is Ad x + Bd u for the stored Ad, Bd;
\* update_state(x, u, z) is the same for every z; update_state(x) equals
\* update_state(x, 0); with sample time 0 update_state(x, u) is x.
C23_DiscreteAdvance ==
    /\ AdvancedWithInput
    /\ MeasurementIgnored
    /\ NoInputIsZeroInput

\* the second call, an update_state(x) with a nonzero x that follows a
\* set_v_dt with a finite nonzero speed and dt > 0: Bd is finite and not
\* zero, Ad is not the identity, and the state moved
C23_Witness ==
    /\ call.op = "update_state_noinput" /\ call.returned /\ ncalls = 2
    /\ dbicycle.m_v = R(3) /\ dbicycle.m_dt # R(0)
    /\ IsFinite(dbicycle.m_Bd) /\ dbicycle.m_Bd # MatZero(n, m)
    /\ dbicycle.m_Ad # MatIdentity(n, n)
    /\ call.ret # call.arg.x
    /\ call.ret = update_state(dbicycle, call.arg.x, MatZero(m, 1))

(***************************************************************************)
(* Consistency of the cached values with the parameters (Spec).             *)
(***************************************************************************)
\* C24: whenever need_recalculate_state_space() is false, the stored A and B
\* are the matrices derived from the current M, C1, K0, K2, w, c, lambda and
\* v, after any sequence of construction, setters, set_v and
\* set_state_space.
C24_CleanMeansDerived ==
    (call.returned /\ ~need_recalculate_state_space(bicycle)) =>
        /\ bicycle.m_A = DerivedA(bicycle)
        /\ bicycle.m_B = DerivedB(bicycle)

\* the step ran set_moore_parameters(): directly, or through a geometry
\* setter called with the flag true
MooreRecalculatingStep ==
    /\ ncalls' = ncalls + 1
    /\ \/ call'.op = "set_moore_parameters"
       \/ call'.op \in GeometrySetters /\ call'.flag

\* C25: whenever need_recalculate_moore_parameters() is false, the cached
\* d1, d2, d3 are the Moore formulas on the current w, c, lambda, rr, rf; the
\* flag is cleared only by a step that runs set_moore_parameters(), never by
\* set_v or set_state_space, so once raised it stays raised until then.
C25_MooreConsistency ==
    /\ [] ((call.returned /\ ~need_recalculate_moore_parameters(bicycle)) =>
              CachedMoore(bicycle) = DerivedMoore(bicycle))
    /\ [][ /\ (need_recalculate_moore_parameters(bicycle)
                 /\ ~need_recalculate_moore_parameters(bicycle')) =>
                  MooreRecalculatingStep
           /\ (ncalls' = ncalls + 1 /\ call'.op \in {"set_v", "set_state_space"}) =>
                  /\ need_recalculate_moore_parameters(bicycle')
                         = need_recalculate_moore_parameters(bicycle)
                  /\ CachedMoore(bicycle') = CachedMoore(bicycle) ]_vars

\* the second call, a set_v that follows a geometry setter called with the
\* flag false: the flag is still raised and d1, d2, d3 are those of the
\* geometry before
C25_Witness ==
    /\ call.op = "set_v" /\ call.returned /\ ncalls = 2
    /\ need_recalculate_moore_parameters(bicycle)
    /\ ~need_recalculate_state_space(bicycle)
    /\ CachedMoore(bicycle) # DerivedMoore(bicycle)

(***************************************************************************)
(* The model integrate_state works with (Spec).                             *)
(***************************************************************************)
\* the rows of A below the kinematic ones are those of the mass matrix M0,
\* for some damping and stiffness matrices and speed the model was given
LowerRowsDerivedFrom(b, M0) ==
    \E C1 \in SecondOrderMatrices, K0 \in SecondOrderMatrices,
       K2 \in SecondOrderMatrices, v \in Speeds :
        \E D \in {DerivedA([b EXCEPT !.m_M = M0, !.m_C1 = C1, !.m_K0 = K0,
                                     !.m_K2 = K2, !.m_v = v])} :
            \A i \in (n - o)..(n - 1) : b.m_A[i] = D[i]

\* C26: in every reachable state the matrix A and the decomposition that
\* integrate_state solves M^-1 u with come from one and the same mass matrix,
\* also after set_M(M', false).
C26_ConsistentModel ==
    call.returned =>
        \E M0 \in Masses :
            /\ LowerRowsDerivedFrom(bicycle, M0)
            /\ \A x \in States, u \in Inputs :
                  integrate_state_system(bicycle, x, u) =
                      MatAdd(MatMul(bicycle.m_A, x),
                             MatMul(DerivedB([bicycle EXCEPT !.m_M = M0]), u))

(***************************************************************************)
(* The wheel-radius setters (Spec).                                         *)
(***************************************************************************)
WheelRadiusSetters == {"set_rear_wheel_radius", "set_front_wheel_radius"}

\* b with the radius that op sets replaced by r
WithRadius(b, op, r) ==
    IF op = "set_rear_wheel_radius" THEN [b EXCEPT !.m_rr = r] ELSE [b EXCEPT !.m_rf = r]

\* C27: set_rear_wheel_radius and set_front_wheel_radius, with either flag
\* value, leave A, B, C, D, v and need_recalculate_state_space() as they
\* were; they change the radius and, with the flag true, d1, d2, d3 (to the
\* Moore formulas, clearing the Moore flag) or, with the flag false, the
\* Moore flag (raised) and nothing else.
C27_WheelRadiusSetters ==
    [][ (ncalls' = ncalls + 1 /\ call'.op \in WheelRadiusSetters) =>
            \E b1 \in {WithRadius(bicycle, call'.op, call'.arg)} :
                /\ bicycle'.m_A = bicycle.m_A /\ bicycle'.m_B = bicycle.m_B
                /\ bicycle'.m_C = bicycle.m_C /\ bicycle'.m_D = bicycle.m_D
                /\ bicycle'.m_v = bicycle.m_v
                /\ need_recalculate_state_space(bicycle')
                       = need_recalculate_state_space(bicycle)
                /\ bicycle' =
                     IF call'.flag
                     THEN [b1 EXCEPT !.m_d1 = DerivedMoore(b1).d1,
                                     !.m_d2 = DerivedMoore(b1).d2,
                                     !.m_d3 = DerivedMoore(b1).d3,
                                     !.m_recalculate_moore_parameters = FALSE]
                     ELSE [b1 EXCEPT !.m_recalculate_moore_parameters = TRUE] ]_vars

\* the second call, set_rear_wheel_radius(7/20, true) after a setter that
\* deferred the state space: the radius and d1, d2 are new, the Moore flag is
\* clear, and the state-space flag is still raised
C27_Witness ==
    /\ call.op = "set_rear_wheel_radius" /\ call.flag /\ call.returned /\ ncalls = 2
    /\ bicycle.m_rr = Rat(7, 20)
    /\ \A ps \in ParameterSets : bicycle.m_rr # ps.rr
    /\ need_recalculate_state_space(bicycle)
    /\ ~need_recalculate_moore_parameters(bicycle)
    /\ CachedMoore(bicycle) = DerivedMoore(bicycle)
    /\ \A ps \in ParameterSets :
          CachedMoore(bicycle) # DerivedMoore([bicycle EXCEPT !.m_rr = ps.rr])

(***************************************************************************)
(* set_v_dt and the calls before it (SpecDiscrete).                         *)
(***************************************************************************)
\* the model a constructor builds from the parameters and the table of b for
\* the speed v and the sample time dt
BuiltAnew(b, v, dt) ==
    DiscreteBicycle(b.m_M, b.m_C1, b.m_K0, b.m_K2, b.m_w, b.m_c, b.m_lambda,
                    b.m_rr, b.m_rf, v, dt, b.m_discrete_state_space_map)

\* C28: after set_v_dt(v, dt), whatever calls came before, v and dt are the
\* arguments, A and B are the matrices derived for v (also when the table
\* supplies Ad and Bd), Ad and Bd are those selected for (v, dt) alone, the
\* dirty flag is false, and the model is the one a constructor builds for
\* (v, dt); the call leaves the lookup table as it was.
C28_LastCallDetermines ==
    /\ [] ((call.op = "set_v_dt" /\ call.returned) =>
              /\ dbicycle.m_v = call.arg.v
              /\ dbicycle.m_dt = call.arg.dt
              /\ dbicycle.m_A = DerivedA(dbicycle)
              /\ dbicycle.m_B = DerivedB(dbicycle)
              /\ IF call.arg.dt = R(0)
                 THEN /\ dbicycle.m_Ad = MatIdentity(n, n)
                      /\ dbicycle.m_Bd = MatZero(n, m)
                 ELSE IF TableHasKey
                 THEN /\ dbicycle.m_Ad = TableEntry[1]
                      /\ dbicycle.m_Bd = TableEntry[2]
                 ELSE \E T \in {AugmentedExp} :
                         /\ dbicycle.m_Ad = Block(T, 0, 0, n, n)
                         /\ dbicycle.m_Bd = Block(T, 0, n, n, m)
              /\ ~dbicycle.m_recalculate_state_space
              /\ dbicycle = BuiltAnew(dbicycle, call.arg.v, call.arg.dt))
    /\ [][ (ncalls' = ncalls + 1 /\ call'.op = "set_v_dt") =>
              dbicycle'.m_discrete_state_space_map
                  = dbicycle.m_discrete_state_space_map ]_vars

\* the second call, a set_v_dt(vc, dt) served by the table on a model that
\* was not built for vc: Ad, Bd are the table's pair and A is the matrix of
\* the speed vc
C28_Witness ==
    /\ call.op = "set_v_dt" /\ call.returned /\ ncalls = 2
    /\ call.arg.v = vc /\ TableHasKey /\ dbicycle.m_dt # R(0)
    /\ dbicycle.m_Ad = TableEntry[1] /\ dbicycle.m_Bd = TableEntry[2]
    /\ dbicycle.m_A = DerivedA(dbicycle)
    /\ dbicycle.m_A[0][2] = RDiv(RMul(vc, Cos(dbicycle.m_lambda)), dbicycle.m_w)

(***************************************************************************)
(* Properties of the UDP server and the loop that feeds it (SpecServer,     *)
(* SpecServerFair).                                                         *)
(***************************************************************************)
\* a send the socket has not carried out yet: its buffer is still to be read
Queued(send) == send.state = "pending"

\* C29: the simulation thread does not write the buffer handed to async_send
\* while that send is queued or in flight, and every async_send is issued
\* when no send is outstanding, so that at most one is.
C29_SendBufferStable ==
    /\ [][ main'.x # main.x =>
              \A k \in DOMAIN server.m_socket.sends : ~Queued(server.m_socket.sends[k]) ]_vars
    /\ [][ Len(server'.m_socket.sends) > Len(server.m_socket.sends) =>
              server.m_socket.sends = <<>> ]_vars
    /\ [] (Len(server.m_socket.sends) <= 1)

\* the service thread is inside m_io_service.run()
ServiceRuns == server.m_service_thread = "run"

\* C30: the service thread starts one receive before it runs the I/O
\* service; every call of handle_receive, after a success or an error, leaves
\* one new receive started, so while the service runs exactly one receive is
\* outstanding; the destructor stops the I/O service and joins the thread,
\* and once entered it comes to its end.
C30_ReceiveLoop ==
    /\ [] (ServiceRuns => Len(server.m_socket.receives) = 1)
    /\ [][ Service_start_receive =>
              server'.m_socket.receives = <<[state |-> "pending", ec |-> "none"]>> ]_vars
    /\ [][ Service_handle_receive =>
              /\ server.m_socket.receives[1].ec \in error_codes
              /\ server'.m_socket.receives = <<[state |-> "pending", ec |-> "none"]>> ]_vars
    /\ [] (main.pc = "join" => server.m_io_service.stopped)
    /\ [] (main.pc = "done" => server.m_service_thread = "finished")
    /\ (main.pc = "~Server") ~> (main.pc = "done")

\* the destructor has returned: the service is stopped, the thread has ended
\* inside run() with its receive still outstanding, and every sample was sent
C30_Witness ==
    /\ main.pc = "done" /\ main.i = MaxIterations
    /\ server.m_io_service.stopped
    /\ server.m_service_thread = "finished"
    /\ Len(server.m_socket.receives) = 1
    /\ server.m_socket.sends = <<>>

====
